---- MODULE Spec2Model ----
(***************************************************************************)
(* State-machine model of the rewindos daemon: the capture manager, the    *)
(* five-stage pipeline (capture -> hash -> OCR -> index -> embed), the      *)
(* D-Bus service (Pause / Resume / DeleteRange / ReportActiveWindow), the   *)
(* pipeline shutdown, and the storage operations they call.                 *)
(***************************************************************************)
EXTENDS Integers, Sequences, FiniteSets, TLC

(***************************************************************************)
(* Bounds of the model.                                                    *)
(***************************************************************************)
\* number of interval sleeps the capture manager may complete
MaxTicks == 3
\* the same, in the runs of all five stages
MaxPipelineTicks == 2
\* the same, in the runs around shutdown()
MaxShutdownTicks == 1
\* number of DeleteRange calls the UI may make
MaxDeletes == 1
\* number of screenshot rows the storage client inserts
MaxRows == 2
\* rows the search client inserts, and its largest page size
MaxSearchRows == 4
MaxLimit == 2
\* rows the filter client inserts
MaxFilterRows == 2
\* rows the full-text client inserts
MaxFtsRows == 2
\* rows the blocks client inserts
MaxBlockRows == 3
\* rows the round-trip client inserts
MaxRoundTripRows == 2
\* entries of excluded_apps and of excluded_title_patterns in an is_excluded call
MaxExcluded == 1
\* wake-ups of the capture task while the UI deletes ranges
MaxRaceTicks == 1
\* wake-ups of the capture task in the runs that fill the OCR worker pool
MaxWorkerTicks == 3
\* wake-ups of the capture task in the runs that start with a full channel
MaxBackpressureTicks == 2
\* wake-ups of the capture task while the embedding backfill runs
MaxBackfillTicks == 2
\* rows the hybrid search client inserts
MaxHybridRows == 3

(***************************************************************************)
(* Program constants.                                                      *)
(***************************************************************************)
\* mpsc::channel(32)
ChannelCap == 32
\* let since = timestamp_secs - 30
LookbackSecs == 30
\* db.get_recent_hashes(since, 10)
RecentLimit == 10
\* CaptureConfig::default().change_threshold
change_threshold == 3
\* timestamp_ms / 1000
MsPerSec == 1000
\* OcrConfig::default().max_workers
max_workers == 2

(***************************************************************************)
(* Strings.  A character is a pair <<letter, is_upper>>; a string is a      *)
(* sequence of characters; Option<String> is a set with at most one string. *)
(***************************************************************************)
Lc(l) == <<l, FALSE>>
Uc(l) == <<l, TRUE>>

to_lowercase(s) == [i \in 1..Len(s) |-> <<s[i][1], FALSE>>]

contains(s, p) ==
    \E i \in 0..(Len(s) - Len(p)) : SubSeq(s, i + 1, i + Len(p)) = p

\* PrivacyConfig of the modelled daemon: one excluded app, one title pattern
excluded_apps == << <<Lc("k"), Lc("p")>> >>
excluded_title_patterns == << <<Uc("p"), Lc("w")>> >>

NoWindow == [app_name |-> {}, window_title |-> {}, window_class |-> {}]

\* the windows the desktop may activate
Windows ==
    { NoWindow,
      [app_name |-> {<<Lc("e"), Lc("d")>>}, window_title |-> {<<Lc("a")>>},
       window_class |-> {<<Lc("e"), Lc("d")>>}],
      [app_name |-> {<<Uc("k"), Lc("p")>>}, window_title |-> {},
       window_class |-> {<<Lc("x")>>}],
      [app_name |-> {<<Lc("e"), Lc("d")>>},
       window_title |-> {<<Lc("a"), Lc("p"), Uc("w"), Lc("b")>>},
       window_class |-> {<<Lc("e"), Lc("d")>>}] }

\* an exclusion test that looks at window_class only when there is no app_name
is_excluded_class_if_no_app(info, apps, patterns) ==
    \/ \E i \in 1..Len(apps) :
          \/ \E app \in info.app_name : to_lowercase(app) = to_lowercase(apps[i])
          \/ /\ info.app_name = {}
             /\ \E class \in info.window_class :
                   to_lowercase(class) = to_lowercase(apps[i])
    \/ \E title \in info.window_title :
          \E j \in 1..Len(patterns) :
              contains(to_lowercase(title), to_lowercase(patterns[j]))

is_excluded(info, apps, patterns) ==
    \/ \E i \in 1..Len(apps) :
          \/ \E app \in info.app_name : to_lowercase(app) = to_lowercase(apps[i])
          \/ \E class \in info.window_class :
                to_lowercase(class) = to_lowercase(apps[i])
    \/ \E title \in info.window_title :
          \E j \in 1..Len(patterns) :
              contains(to_lowercase(title), to_lowercase(patterns[j]))

(***************************************************************************)
(* Perceptual hashes: the set of bit positions that are 1.                  *)
(***************************************************************************)
HashA == {}
HashFar == 1..8

\* hashes the screen content may produce
FrameHashes == {HashA, HashFar}

hamming_distance(a, b) == Cardinality((a \ b) \cup (b \ a))

\* wall-clock advance (ms) between two wake-ups of the capture manager
Deltas == {1999, 29001}

(***************************************************************************)
(* State.                                                                  *)
(***************************************************************************)
VARIABLES
    \* shared flag and window cache
    is_capturing,        \* Arc<AtomicBool>
    window,              \* WindowTracker / WindowInfoProvider cache
    screen,              \* perceptual hash of what the screen shows
    \* wall clock (ms) and number of interval sleeps completed
    now, ticks,
    \* capture task: position, frame in hand
    capPc, capFrame,
    \* the four channels (queue, sender side alive)
    raw, processed, ocrq, embedq,
    \* hash task: position, frame in hand, outcome of the recent-hash query
    hashPc, hashFrame, hashQuery,
    \* OCR stage, its spawned tasks, index and embed tasks
    ocrPc, ocrFrame, ocrTasks, indexPc, indexResult, embedPc, embedReq,
    \* AppConfig: ocr.enabled, semantic.enabled
    config,
    \* PipelineMetrics
    frames_captured, frames_deduplicated, frames_ocr_pending, frames_indexed,
    \* database tables and the screenshots directory
    screenshots, next_id, ocr_text_content, ocr_fts, ocr_bounding_boxes,
    ocr_embeddings, files,
    \* PipelineHandle::shutdown position
    shutPc,
    \* D-Bus service: last Pause/Resume call and its result, DeleteRange count
    last_call, last_ok, deletes,
    \* storage client of the crash model: position, open transaction, arguments
    dbPc, tx, dbArg,
    \* text_content of the OCR rows, by screenshot id, for the search model
    ocr_text,
    \* history: timestamps of the frames the capture manager dropped as excluded
    excluded_dropped,
    \* portal backend: SharedState.frame, the negotiated format, the number of
    \* process callbacks so far, the frames delivered to the callback since the
    \* last capture_frame, and the result of the last capture_frame
    shared_frame, format_info, pumped, since_read, portal_result,
    \* run_daemon position, DaemonService.kwin_window_info, the window that is
    \* active on the desktop, whether the KWin tracking script is loaded, and the
    \* ReportActiveWindow calls of the script that are in flight
    mainPc, kwin_window_info, active_window, script_loaded, callbacks,
    \* history: the window that was active when the pixels of capFrame were
    \* captured, and the same for every frame next_frame returned
    pixels_window, emitted_under,
    \* history: the ranges of the DeleteRange calls that returned Ok and ended
    \* no later than the time of the call
    deleted_ranges

capVars == <<capPc, capFrame, now, ticks, frames_captured, excluded_dropped>>
chanVars == <<raw, processed, ocrq, embedq>>
hashVars == <<hashPc, hashFrame, hashQuery, frames_deduplicated>>
ocrVars == <<ocrPc, ocrFrame, ocrTasks>>
tailVars == <<indexPc, indexResult, embedPc, embedReq, frames_indexed, config>>
dbVars == <<screenshots, next_id, ocr_text_content, ocr_fts, ocr_bounding_boxes,
            ocr_embeddings, files>>
ipcVars == <<last_call, last_ok, deletes>>
crashVars == <<dbPc, tx, dbArg>>
searchVars == <<ocr_text>>
portalVars == <<shared_frame, format_info, pumped, since_read, portal_result>>
startVars == <<mainPc, kwin_window_info, active_window, script_loaded, callbacks>>
privVars == <<pixels_window, emitted_under>>
delVars == <<deleted_ranges>>

vars == <<is_capturing, window, screen, capVars, chanVars, hashVars, ocrVars, tailVars,
          frames_ocr_pending, dbVars, shutPc, ipcVars, crashVars,
                   searchVars, portalVars, startVars, privVars, delVars>>

NoFrame == [timestamp |-> -1, hash |-> {}, window |-> NoWindow]
NoQuery == [ok |-> FALSE, is_dup |-> FALSE]
NoTx == [otc |-> {}, fts |-> {}, boxes |-> {}]
ProcessedFrame(id, timestamp_ms) == [screenshot_id |-> id, timestamp |-> timestamp_ms]

(***************************************************************************)
(* Channel ends.  A sender lives as long as the task that owns it; a        *)
(* receiver sees "closed" once the queue is empty and every sender is gone. *)
(***************************************************************************)
AwaitPcs == {"sleep", "paused_sleep", "capturing", "send"}

raw_tx_dropped == capPc \in {"finished", "aborted"}
raw_rx_dropped == hashPc = "finished"
processed_tx_dropped == hashPc = "finished"
processed_rx_dropped == ocrPc = "finished"
\* a clone of ocr_tx that outlives the OCR stage and its tasks
ocr_tx_never_dropped == FALSE
ocr_tx_dropped == ocrPc = "finished" /\ ocrTasks = {}
ocr_rx_dropped == indexPc = "finished"
embed_tx_dropped == indexPc = "finished"
embed_rx_dropped == embedPc = "finished"

abort_requested == shutPc # "running"

(***************************************************************************)
(* Stage 1: run_capture_stage and CaptureManager::next_frame.               *)
(***************************************************************************)
\* while is_capturing.load(SeqCst) { ... }
CaptureLoopHead ==
    /\ capPc = "loop_head"
    /\ capPc' = IF is_capturing THEN "sleep" ELSE "finished"
    /\ UNCHANGED <<is_capturing, window, screen, capFrame, now, ticks, frames_captured,
                   excluded_dropped, chanVars, hashVars, ocrVars, tailVars,
                   frames_ocr_pending, dbVars, shutPc, ipcVars, crashVars,
                   searchVars, portalVars, startVars, privVars, delVars>>

\* tokio::time::sleep(self.interval) returns; the flag is read next
NextFrameWake(deltas, limit) ==
    /\ capPc = "sleep"
    /\ ~abort_requested
    /\ ticks < limit
    /\ ticks' = ticks + 1
    /\ \E d \in deltas : now' = now + d
    /\ capPc' = IF is_capturing THEN "capturing" ELSE "paused_sleep"
    /\ UNCHANGED <<is_capturing, window, screen, capFrame, frames_captured,
                   excluded_dropped, chanVars, hashVars, ocrVars, tailVars,
                   frames_ocr_pending, dbVars, shutPc, ipcVars, crashVars,
                   searchVars, portalVars, startVars, privVars, delVars>>

\* the 500 ms sleep of the paused branch returns; continue
NextFramePausedWake ==
    /\ capPc = "paused_sleep"
    /\ ~abort_requested
    /\ capPc' = "sleep"
    /\ UNCHANGED <<is_capturing, window, screen, capFrame, now, ticks, frames_captured,
                   excluded_dropped, chanVars, hashVars, ocrVars, tailVars,
                   frames_ocr_pending, dbVars, shutPc, ipcVars, crashVars,
                   searchVars, portalVars, startVars, privVars, delVars>>

\* backend.capture_frame() returns Ok(frame) or Err
NextFrameCapture ==
    /\ capPc = "capturing"
    /\ ~abort_requested
    /\ \/ /\ capFrame' = [timestamp |-> now, hash |-> screen, window |-> NoWindow]
          /\ capPc' = "have_frame"
          /\ pixels_window' = active_window
       \/ /\ capPc' = "sleep"
          /\ UNCHANGED <<capFrame, pixels_window>>
    /\ UNCHANGED <<is_capturing, window, screen, now, ticks, frames_captured,
                   excluded_dropped, chanVars, hashVars, ocrVars, tailVars,
                   frames_ocr_pending, dbVars, shutPc, ipcVars, crashVars,
                   searchVars, portalVars, startVars, emitted_under, delVars>>

\* next_frame without the privacy branch: every captured frame is enriched
\* and returned
NextFrameNoFilter ==
    /\ capPc = "have_frame"
    /\ capPc' = "send"
    /\ capFrame' = [capFrame EXCEPT !.window = window]
    /\ frames_captured' = frames_captured + 1
    /\ emitted_under' = emitted_under \cup {pixels_window}
    /\ UNCHANGED <<is_capturing, window, screen, now, ticks, excluded_dropped,
                   chanVars, hashVars, ocrVars, tailVars, frames_ocr_pending,
                   dbVars, shutPc, ipcVars, crashVars,
                   searchVars, portalVars, startVars, pixels_window, delVars>>

\* window_info.current(), the privacy filter, enrichment, return Some(frame),
\* and frames_captured.fetch_add(1) in run_capture_stage
NextFrameFilter ==
    /\ capPc = "have_frame"
    /\ IF is_excluded(window, excluded_apps, excluded_title_patterns)
       THEN /\ capPc' = "sleep"
            /\ capFrame' = NoFrame
            /\ excluded_dropped' = excluded_dropped \cup {capFrame.timestamp}
            /\ UNCHANGED <<frames_captured, emitted_under>>
       ELSE /\ capPc' = "send"
            /\ capFrame' = [capFrame EXCEPT !.window = window]
            /\ frames_captured' = frames_captured + 1
            /\ emitted_under' = emitted_under \cup {pixels_window}
            /\ UNCHANGED excluded_dropped
    /\ UNCHANGED <<is_capturing, window, screen, now, ticks, chanVars, hashVars,
                   ocrVars, tailVars, frames_ocr_pending, dbVars, shutPc,
                   ipcVars, crashVars,
                   searchVars, portalVars, startVars, pixels_window, delVars>>

\* raw_tx.send(frame).await
CaptureSend ==
    /\ capPc = "send"
    /\ ~abort_requested
    /\ IF raw_rx_dropped
       THEN /\ capPc' = "finished"
            /\ UNCHANGED raw
       ELSE /\ Len(raw) < ChannelCap
            /\ raw' = Append(raw, capFrame)
            /\ capPc' = "loop_head"
    /\ capFrame' = NoFrame
    /\ UNCHANGED <<is_capturing, window, screen, now, ticks, frames_captured,
                   excluded_dropped, processed, ocrq, embedq, hashVars, ocrVars,
                   tailVars, frames_ocr_pending, dbVars, shutPc, ipcVars,
                   crashVars,
                   searchVars, portalVars, startVars, privVars, delVars>>

\* the aborted task is dropped at its next await point
CaptureAborted ==
    /\ abort_requested
    /\ capPc \in AwaitPcs
    /\ capPc' = "aborted"
    /\ capFrame' = NoFrame
    /\ UNCHANGED <<is_capturing, window, screen, now, ticks, frames_captured,
                   excluded_dropped, chanVars, hashVars, ocrVars, tailVars,
                   frames_ocr_pending, dbVars, shutPc, ipcVars, crashVars,
                   searchVars, portalVars, startVars, privVars, delVars>>

\* the desktop shows something else
ScreenChange ==
    /\ \E h \in FrameHashes : h # screen /\ screen' = h
    /\ UNCHANGED <<is_capturing, window, capVars, chanVars, hashVars, ocrVars,
                   tailVars, frames_ocr_pending, dbVars, shutPc, ipcVars,
                   crashVars,
                   searchVars, portalVars, startVars, privVars, delVars>>

(***************************************************************************)
(* D-Bus service: Pause, Resume, ReportActiveWindow.                        *)
(***************************************************************************)
\* Pause without the "not capturing" check
PauseUnguarded ==
    /\ is_capturing' = FALSE
    /\ last_call' = [method |-> "Pause", result |-> "Ok"]
    /\ last_ok' = <<last_ok[2], "Pause">>
    /\ UNCHANGED <<window, screen, capVars, chanVars, hashVars, ocrVars, tailVars,
                   frames_ocr_pending, dbVars, shutPc, deletes, crashVars,
                   searchVars, portalVars, startVars, privVars, delVars>>

Pause ==
    /\ IF ~is_capturing
       THEN /\ last_call' = [method |-> "Pause", result |-> "Err"]
            /\ UNCHANGED <<is_capturing, last_ok>>
       ELSE /\ is_capturing' = FALSE
            /\ last_call' = [method |-> "Pause", result |-> "Ok"]
            /\ last_ok' = <<last_ok[2], "Pause">>
    /\ UNCHANGED <<window, screen, capVars, chanVars, hashVars, ocrVars, tailVars,
                   frames_ocr_pending, dbVars, shutPc, deletes, crashVars,
                   searchVars, portalVars, startVars, privVars, delVars>>

Resume ==
    /\ IF is_capturing
       THEN /\ last_call' = [method |-> "Resume", result |-> "Err"]
            /\ UNCHANGED <<is_capturing, last_ok>>
       ELSE /\ is_capturing' = TRUE
            /\ last_call' = [method |-> "Resume", result |-> "Ok"]
            /\ last_ok' = <<last_ok[2], "Resume">>
    /\ UNCHANGED <<window, screen, capVars, chanVars, hashVars, ocrVars, tailVars,
                   frames_ocr_pending, dbVars, shutPc, deletes, crashVars,
                   searchVars, portalVars, startVars, privVars, delVars>>

\* report_active_window(caption, resource_class, resource_name):
\* if let Some(ref kwin) = self.kwin_window_info { kwin.update(..) }
report_active_window(w) ==
    IF kwin_window_info # {} THEN window' = w ELSE UNCHANGED window

\* ReportActiveWindow called by any client of the bus
ReportActiveWindow ==
    /\ \E w \in Windows : w # window /\ report_active_window(w)
    /\ UNCHANGED <<is_capturing, screen, capVars, chanVars, hashVars, ocrVars, tailVars,
                   frames_ocr_pending, dbVars, shutPc, ipcVars, crashVars,
                   searchVars, portalVars, startVars, privVars, delVars>>

(***************************************************************************)
(* Storage: rows, queries and statements of Database.                       *)
(***************************************************************************)
screenshot_path(timestamp_ms) == <<"full", timestamp_ms>>
thumbnail_path(timestamp_ms) == <<"thumbs", timestamp_ms>>

\* NewScreenshot built by the hash stage; ocr_status and embedding_status
\* take the column defaults
NewScreenshot(frame) ==
    [timestamp |-> frame.timestamp \div MsPerSec,
     timestamp_ms |-> frame.timestamp,
     window |-> frame.window,
     perceptual_hash |-> frame.hash,
     ocr_status |-> "pending",
     embedding_status |-> "pending"]

\* WHERE timestamp > ?1 ORDER BY timestamp DESC LIMIT ?2: every possible
\* answer, as a set of (id, hash) pairs
get_recent_hashes(since_timestamp, limit) ==
    LET M == {id \in DOMAIN screenshots :
                  screenshots[id].timestamp > since_timestamp}
        n == IF Cardinality(M) < limit THEN Cardinality(M) ELSE limit
    IN  { {<<id, screenshots[id].perceptual_hash>> : id \in S} :
            S \in {T \in SUBSET M :
                     /\ Cardinality(T) = n
                     /\ \A a \in T, b \in M \ T :
                           screenshots[a].timestamp >= screenshots[b].timestamp} }

is_duplicate(hash, recent_hashes, threshold) ==
    \E r \in recent_hashes : hamming_distance(hash, r[2]) <= threshold

\* ids matched by WHERE timestamp < ?1
MatchBefore(timestamp) ==
    {id \in DOMAIN screenshots : screenshots[id].timestamp < timestamp}

\* a range that takes the row at its end as well
MatchRangeClosed(start, end) ==
    {id \in DOMAIN screenshots :
        screenshots[id].timestamp >= start /\ screenshots[id].timestamp <= end}

\* ids matched by WHERE timestamp >= ?1 AND timestamp < ?2
MatchRange(start, end) ==
    {id \in DOMAIN screenshots :
        screenshots[id].timestamp >= start /\ screenshots[id].timestamp < end}

\* collect_screenshot_paths over the matched rows
collect_screenshot_paths(ids) ==
    UNION {{screenshot_path(screenshots[id].timestamp_ms),
            thumbnail_path(screenshots[id].timestamp_ms)} : id \in ids}

\* the table f without the rows outside keep
Restrict(f, keep) == [id \in keep |-> f[id]]

(***************************************************************************)
(* Stage 2: run_hash_stage.                                                 *)
(***************************************************************************)
\* raw_rx.recv(): a frame, or None once the queue is empty and closed;
\* image_from_rgba may reject the buffer
HashRecv ==
    /\ hashPc = "recv"
    /\ \/ /\ raw # <<>>
          /\ raw' = Tail(raw)
          /\ \/ hashPc' = "check" /\ hashFrame' = Head(raw)
             \/ UNCHANGED <<hashPc, hashFrame>>
       \/ /\ raw = <<>>
          /\ raw_tx_dropped
          /\ hashPc' = "finished"
          /\ UNCHANGED <<raw, hashFrame>>
    /\ UNCHANGED <<is_capturing, window, screen, capVars, processed, ocrq, embedq,
                   hashQuery, frames_deduplicated, ocrVars, tailVars,
                   frames_ocr_pending, dbVars, shutPc, ipcVars, crashVars,
                   searchVars, portalVars, startVars, privVars, delVars>>

\* outcomes of the spawn_blocking closure that reads the recent hashes:
\* Ok(recent) gives is_duplicate, Err gives false
HashQueryOutcomes(frame) ==
    { [ok |-> TRUE,
       is_dup |-> is_duplicate(frame.hash, recent, change_threshold)] :
         recent \in get_recent_hashes(
             (frame.timestamp \div MsPerSec) - LookbackSecs, RecentLimit) }
    \cup {[ok |-> FALSE, is_dup |-> FALSE]}

\* the duplicate check and the is_dup branch after it
HashCheck ==
    /\ hashPc = "check"
    /\ \E outcome \in HashQueryOutcomes(hashFrame) :
          IF outcome.is_dup
          THEN /\ frames_deduplicated' = frames_deduplicated + 1
               /\ hashPc' = "recv"
               /\ hashFrame' = NoFrame
               /\ hashQuery' = NoQuery
          ELSE /\ hashPc' = "save"
               /\ hashQuery' = outcome
               /\ UNCHANGED <<frames_deduplicated, hashFrame>>
    /\ UNCHANGED <<is_capturing, window, screen, capVars, chanVars, ocrVars, tailVars,
                   frames_ocr_pending, dbVars, shutPc, ipcVars, crashVars,
                   searchVars, portalVars, startVars, privVars, delVars>>

\* variant: the result of the save closure is not looked at
HashSaveIgnoresError ==
    /\ hashPc = "save"
    /\ \/ files' = files \cup {screenshot_path(hashFrame.timestamp),
                                thumbnail_path(hashFrame.timestamp)}
       \/ UNCHANGED files
       \/ files' = files \cup {screenshot_path(hashFrame.timestamp)}
    /\ hashPc' = "insert"
    /\ UNCHANGED <<hashFrame, hashQuery>>
    /\ UNCHANGED <<is_capturing, window, screen, capVars, chanVars,
                   frames_deduplicated, ocrVars, tailVars, frames_ocr_pending,
                   screenshots, next_id, ocr_text_content, ocr_fts,
                   ocr_bounding_boxes, ocr_embeddings, shutPc, ipcVars,
                   crashVars,
                   searchVars, portalVars, startVars, privVars, delVars>>

\* save_webp of the image, then of the thumbnail; either may fail
HashSave ==
    /\ hashPc = "save"
    /\ \/ /\ files' = files \cup {screenshot_path(hashFrame.timestamp),
                                    thumbnail_path(hashFrame.timestamp)}
          /\ hashPc' = "insert"
          /\ UNCHANGED <<hashFrame, hashQuery>>
       \/ /\ \/ UNCHANGED files
             \/ files' = files \cup {screenshot_path(hashFrame.timestamp)}
          /\ hashPc' = "recv"
          /\ hashFrame' = NoFrame
          /\ hashQuery' = NoQuery
    /\ UNCHANGED <<is_capturing, window, screen, capVars, chanVars,
                   frames_deduplicated, ocrVars, tailVars, frames_ocr_pending,
                   screenshots, next_id, ocr_text_content, ocr_fts,
                   ocr_bounding_boxes, ocr_embeddings, shutPc, ipcVars,
                   crashVars,
                   searchVars, portalVars, startVars, privVars, delVars>>

\* variant: a failed insert ends the stage (break instead of continue)
HashInsertBreaks ==
    /\ hashPc = "insert"
    /\ \/ /\ screenshots' = screenshots @@ (next_id :> NewScreenshot(hashFrame))
          /\ next_id' = next_id + 1
          /\ frames_ocr_pending' = frames_ocr_pending + 1
          /\ hashPc' = "send"
          /\ hashFrame' = ProcessedFrame(next_id, hashFrame.timestamp)
          /\ UNCHANGED hashQuery
       \/ /\ hashPc' = "finished"
          /\ hashFrame' = NoFrame
          /\ hashQuery' = NoQuery
          /\ UNCHANGED <<screenshots, next_id, frames_ocr_pending>>
    /\ UNCHANGED <<is_capturing, window, screen, capVars, chanVars,
                   frames_deduplicated, ocrVars, tailVars, ocr_text_content,
                   ocr_fts, ocr_bounding_boxes, ocr_embeddings, files, shutPc,
                   ipcVars, crashVars,
                   searchVars, portalVars, startVars, privVars, delVars>>

\* db.insert_screenshot, then frames_ocr_pending.fetch_add(1)
HashInsert ==
    /\ hashPc = "insert"
    /\ \/ /\ screenshots' = screenshots @@ (next_id :> NewScreenshot(hashFrame))
          /\ next_id' = next_id + 1
          /\ frames_ocr_pending' = frames_ocr_pending + 1
          /\ hashPc' = "send"
          /\ hashFrame' = ProcessedFrame(next_id, hashFrame.timestamp)
          /\ UNCHANGED hashQuery
       \/ /\ hashPc' = "recv"
          /\ hashFrame' = NoFrame
          /\ hashQuery' = NoQuery
          /\ UNCHANGED <<screenshots, next_id, frames_ocr_pending>>
    /\ UNCHANGED <<is_capturing, window, screen, capVars, chanVars,
                   frames_deduplicated, ocrVars, tailVars, ocr_text_content,
                   ocr_fts, ocr_bounding_boxes, ocr_embeddings, files, shutPc,
                   ipcVars, crashVars,
                   searchVars, portalVars, startVars, privVars, delVars>>

\* variant: try_send, which gives the frame up when the queue is full
HashTrySend ==
    /\ hashPc = "send"
    /\ IF processed_rx_dropped
       THEN /\ hashPc' = "finished"
            /\ UNCHANGED processed
       ELSE /\ processed' = IF Len(processed) < ChannelCap
                            THEN Append(processed, hashFrame)
                            ELSE processed
            /\ hashPc' = "recv"
    /\ hashFrame' = NoFrame
    /\ hashQuery' = NoQuery
    /\ UNCHANGED <<is_capturing, window, screen, capVars, raw, ocrq, embedq,
                   frames_deduplicated, ocrVars, tailVars, frames_ocr_pending,
                   dbVars, shutPc, ipcVars, crashVars,
                   searchVars, portalVars, startVars, privVars, delVars>>

\* processed_tx.send(processed).await
HashSend ==
    /\ hashPc = "send"
    /\ IF processed_rx_dropped
       THEN /\ hashPc' = "finished"
            /\ UNCHANGED processed
       ELSE /\ Len(processed) < ChannelCap
            /\ processed' = Append(processed, hashFrame)
            /\ hashPc' = "recv"
    /\ hashFrame' = NoFrame
    /\ hashQuery' = NoQuery
    /\ UNCHANGED <<is_capturing, window, screen, capVars, raw, ocrq, embedq,
                   frames_deduplicated, ocrVars, tailVars, frames_ocr_pending,
                   dbVars, shutPc, ipcVars, crashVars,
                   searchVars, portalVars, startVars, privVars, delVars>>

(***************************************************************************)
(* Stage 3: run_ocr_stage and the tasks it spawns.                          *)
(***************************************************************************)
\* UPDATE screenshots SET ocr_status = ?1 WHERE id = ?2
update_ocr_status(rows, screenshot_id, status) ==
    IF screenshot_id \in DOMAIN rows
    THEN [rows EXCEPT ![screenshot_id].ocr_status = status]
    ELSE rows

\* the statement runs, or fails and leaves the table as it was
StatusWrites(screenshot_id, status) ==
    {update_ocr_status(screenshots, screenshot_id, status), screenshots}

\* if !ocr_enabled: drain the channel, one fetch_sub per frame
OcrDrain ==
    /\ ~config.ocr_enabled
    /\ ocrPc = "recv"
    /\ \/ /\ processed # <<>>
          /\ processed' = Tail(processed)
          /\ frames_ocr_pending' = frames_ocr_pending - 1
          /\ UNCHANGED ocrPc
       \/ /\ processed = <<>>
          /\ processed_tx_dropped
          /\ ocrPc' = "finished"
          /\ UNCHANGED <<processed, frames_ocr_pending>>
    /\ UNCHANGED <<is_capturing, window, screen, capVars, raw, ocrq, embedq, hashVars,
                   ocrFrame, ocrTasks, tailVars, dbVars, shutPc, ipcVars,
                   crashVars,
                   searchVars, portalVars, startVars, privVars, delVars>>

\* processed_rx.recv()
OcrRecv ==
    /\ config.ocr_enabled
    /\ ocrPc = "recv"
    /\ \/ /\ processed # <<>>
          /\ processed' = Tail(processed)
          /\ ocrFrame' = Head(processed)
          /\ ocrPc' = "acquire"
       \/ /\ processed = <<>>
          /\ processed_tx_dropped
          /\ ocrPc' = "finished"
          /\ UNCHANGED <<processed, ocrFrame>>
    /\ UNCHANGED <<is_capturing, window, screen, capVars, raw, ocrq, embedq, hashVars,
                   ocrTasks, tailVars, frames_ocr_pending, dbVars, shutPc,
                   ipcVars, crashVars,
                   searchVars, portalVars, startVars, privVars, delVars>>

\* variant: tokio::spawn without a permit
OcrSpawnNoPermit ==
    /\ ocrPc = "acquire"
    /\ ocrTasks' = ocrTasks \cup
           {[screenshot_id |-> ocrFrame.screenshot_id, pc |-> "mark"]}
    /\ ocrFrame' = NoFrame
    /\ ocrPc' = "recv"
    /\ UNCHANGED <<is_capturing, window, screen, capVars, chanVars, hashVars, tailVars,
                   frames_ocr_pending, dbVars, shutPc, ipcVars, crashVars,
                   searchVars, portalVars, startVars, privVars, delVars>>

\* semaphore.acquire_owned() and tokio::spawn of the task for the frame
OcrSpawn ==
    /\ ocrPc = "acquire"
    /\ Cardinality(ocrTasks) < max_workers
    /\ ocrTasks' = ocrTasks \cup
           {[screenshot_id |-> ocrFrame.screenshot_id, pc |-> "mark"]}
    /\ ocrFrame' = NoFrame
    /\ ocrPc' = "recv"
    /\ UNCHANGED <<is_capturing, window, screen, capVars, chanVars, hashVars, tailVars,
                   frames_ocr_pending, dbVars, shutPc, ipcVars, crashVars,
                   searchVars, portalVars, startVars, privVars, delVars>>

Moved(t, pc) == (ocrTasks \ {t}) \cup {[t EXCEPT !.pc = pc]}

\* let _ = update_ocr_status(sid, Processing)
OcrTaskMark(t) ==
    /\ t.pc = "mark"
    /\ \E rows \in StatusWrites(t.screenshot_id, "processing") :
          screenshots' = rows
    /\ ocrTasks' = Moved(t, "tesseract")
    /\ UNCHANGED <<is_capturing, window, screen, capVars, chanVars, hashVars, ocrPc,
                   ocrFrame, tailVars, frames_ocr_pending, next_id,
                   ocr_text_content, ocr_fts, ocr_bounding_boxes,
                   ocr_embeddings, files, shutPc, ipcVars, crashVars,
                   searchVars, portalVars, startVars, privVars, delVars>>

\* variant: fetch_sub(1) on the Ok arm only
OcrTaskTesseractOkOnly(t) ==
    /\ t.pc = "tesseract"
    /\ \E next \in {"send", "mark_done", "mark_failed"} :
          /\ ocrTasks' = Moved(t, next)
          /\ frames_ocr_pending' =
                 IF next = "mark_failed" THEN frames_ocr_pending
                 ELSE frames_ocr_pending - 1
    /\ UNCHANGED <<is_capturing, window, screen, capVars, chanVars, hashVars, ocrPc,
                   ocrFrame, tailVars, dbVars, shutPc, ipcVars, crashVars,
                   searchVars, portalVars, startVars, privVars, delVars>>

\* ocr::run_tesseract returns text, empty text or an error (also its
\* timeout); frames_ocr_pending.fetch_sub(1) on both arms
OcrTaskTesseract(t) ==
    /\ t.pc = "tesseract"
    /\ frames_ocr_pending' = frames_ocr_pending - 1
    /\ \E next \in {"send", "mark_done", "mark_failed"} :
          ocrTasks' = Moved(t, next)
    /\ UNCHANGED <<is_capturing, window, screen, capVars, chanVars, hashVars, ocrPc,
                   ocrFrame, tailVars, dbVars, shutPc, ipcVars, crashVars,
                   searchVars, portalVars, startVars, privVars, delVars>>

\* empty text: let _ = update_ocr_status(sid, Done); error: ... Failed;
\* the task ends and its permit is released
OcrTaskFinish(t) ==
    /\ t.pc \in {"mark_done", "mark_failed"}
    /\ \E rows \in StatusWrites(t.screenshot_id,
                     IF t.pc = "mark_done" THEN "done" ELSE "failed") :
          screenshots' = rows
    /\ ocrTasks' = ocrTasks \ {t}
    /\ UNCHANGED <<is_capturing, window, screen, capVars, chanVars, hashVars, ocrPc,
                   ocrFrame, tailVars, frames_ocr_pending, next_id,
                   ocr_text_content, ocr_fts, ocr_bounding_boxes,
                   ocr_embeddings, files, shutPc, ipcVars, crashVars,
                   searchVars, portalVars, startVars, privVars, delVars>>

\* ocr_tx.send(ocr_result).await, then the task ends
OcrTaskSend(t) ==
    /\ t.pc = "send"
    /\ IF ocr_rx_dropped
       THEN UNCHANGED ocrq
       ELSE /\ Len(ocrq) < ChannelCap
            /\ ocrq' = Append(ocrq, t.screenshot_id)
    /\ ocrTasks' = ocrTasks \ {t}
    /\ UNCHANGED <<is_capturing, window, screen, capVars, raw, processed, embedq,
                   hashVars, ocrPc, ocrFrame, tailVars, frames_ocr_pending,
                   dbVars, shutPc, ipcVars, crashVars,
                   searchVars, portalVars, startVars, privVars, delVars>>

(***************************************************************************)
(* Stage 4: run_index_stage.                                                *)
(***************************************************************************)
\* ocr_text_content and ocr_bounding_boxes reference screenshots(id)
fk_ok(screenshot_id) == screenshot_id \in DOMAIN screenshots

\* ocr_rx.recv()
IndexRecv ==
    /\ indexPc = "recv"
    /\ \/ /\ ocrq # <<>>
          /\ ocrq' = Tail(ocrq)
          /\ indexResult' = Head(ocrq)
          /\ indexPc' = "write"
       \/ /\ ocrq = <<>>
          /\ ocr_tx_dropped
          /\ indexPc' = "finished"
          /\ UNCHANGED <<ocrq, indexResult>>
    /\ UNCHANGED <<is_capturing, window, screen, capVars, raw, processed, embedq,
                   hashVars, ocrVars, embedPc, embedReq, frames_indexed, config,
                   frames_ocr_pending, dbVars, shutPc, ipcVars, crashVars,
                   searchVars, portalVars, startVars, privVars, delVars>>

\* an index stage that puts a frame back to pending when a write fails
IndexWritesRetry(screenshot_id, stop) ==
    [otc |-> IF stop = "ocr_text" THEN ocr_text_content
             ELSE ocr_text_content \cup {screenshot_id},
     fts |-> IF stop = "ocr_text" THEN ocr_fts
             ELSE ocr_fts \cup {screenshot_id},
     boxes |-> IF stop \in {"ocr_text", "boxes"} THEN ocr_bounding_boxes
               ELSE ocr_bounding_boxes \cup {screenshot_id},
     rows |-> IF screenshot_id \notin DOMAIN screenshots THEN screenshots
              ELSE [screenshots EXCEPT ![screenshot_id].ocr_status =
                       IF stop = "none" THEN "done" ELSE "pending"]]

\* the writes of the spawn_blocking closure, in order; "stop" names the first
\* statement that failed ("none": all succeeded)
IndexWrites(screenshot_id, stop) ==
    [otc |-> IF stop = "ocr_text" THEN ocr_text_content
             ELSE ocr_text_content \cup {screenshot_id},
     fts |-> IF stop = "ocr_text" THEN ocr_fts
             ELSE ocr_fts \cup {screenshot_id},
     boxes |-> IF stop \in {"ocr_text", "boxes"} THEN ocr_bounding_boxes
               ELSE ocr_bounding_boxes \cup {screenshot_id},
     rows |-> IF stop = "none"
              THEN update_ocr_status(screenshots, screenshot_id, "done")
              ELSE screenshots]

\* variant: the counter and the forward do not look at the result
IndexWriteIgnoresResult ==
    /\ indexPc = "write"
    /\ \E stop \in (IF fk_ok(indexResult) THEN {"none", "ocr_text", "boxes", "status"}
                     ELSE {"ocr_text"}) :
          LET w == IndexWrites(indexResult, stop) IN
          /\ ocr_text_content' = w.otc
          /\ ocr_fts' = w.fts
          /\ ocr_bounding_boxes' = w.boxes
          /\ screenshots' = w.rows
    /\ frames_indexed' = frames_indexed + 1
    /\ indexPc' = IF config.semantic_enabled THEN "send" ELSE "recv"
    /\ indexResult' = IF config.semantic_enabled THEN indexResult ELSE 0
    /\ UNCHANGED <<is_capturing, window, screen, capVars, chanVars, hashVars, ocrVars,
                   embedPc, embedReq, config, frames_ocr_pending, next_id,
                   ocr_embeddings, files, shutPc, ipcVars, crashVars,
                   searchVars, portalVars, startVars, privVars, delVars>>

\* insert_ocr_text ?; insert_bounding_boxes ?; update_ocr_status(Done) ?;
\* frames_indexed.fetch_add(1); then the match on the result
IndexWrite ==
    /\ indexPc = "write"
    /\ \E stop \in (IF fk_ok(indexResult) THEN {"none", "ocr_text", "boxes", "status"}
                     ELSE {"ocr_text"}) :
          LET w == IndexWrites(indexResult, stop) IN
          /\ ocr_text_content' = w.otc
          /\ ocr_fts' = w.fts
          /\ ocr_bounding_boxes' = w.boxes
          /\ screenshots' = w.rows
          /\ IF stop = "none"
             THEN /\ frames_indexed' = frames_indexed + 1
                  /\ indexPc' = IF config.semantic_enabled THEN "send" ELSE "recv"
             ELSE /\ indexPc' = "recv"
                  /\ UNCHANGED frames_indexed
          /\ indexResult' = IF stop = "none" /\ config.semantic_enabled
                            THEN indexResult ELSE 0
    /\ UNCHANGED <<is_capturing, window, screen, capVars, chanVars, hashVars, ocrVars,
                   embedPc, embedReq, config, frames_ocr_pending, next_id,
                   ocr_embeddings, files, shutPc, ipcVars, crashVars,
                   searchVars, portalVars, startVars, privVars, delVars>>

\* embed_tx.send(req).await
IndexSend ==
    /\ indexPc = "send"
    /\ IF embed_rx_dropped
       THEN UNCHANGED embedq
       ELSE /\ Len(embedq) < ChannelCap
            /\ embedq' = Append(embedq, indexResult)
    /\ indexPc' = "recv"
    /\ indexResult' = 0
    /\ UNCHANGED <<is_capturing, window, screen, capVars, raw, processed, ocrq,
                   hashVars, ocrVars, embedPc, embedReq, frames_indexed, config,
                   frames_ocr_pending, dbVars, shutPc, ipcVars, crashVars,
                   searchVars, portalVars, startVars, privVars, delVars>>

(***************************************************************************)
(* Stage 5: run_embed_stage.                                                *)
(***************************************************************************)
\* embed_rx.recv(); with semantic search disabled the request is dropped
EmbedRecv ==
    /\ embedPc = "recv"
    /\ \/ /\ embedq # <<>>
          /\ embedq' = Tail(embedq)
          /\ IF config.semantic_enabled
             THEN embedPc' = "embed" /\ embedReq' = Head(embedq)
             ELSE UNCHANGED <<embedPc, embedReq>>
       \/ /\ embedq = <<>>
          /\ embed_tx_dropped
          /\ embedPc' = "finished"
          /\ UNCHANGED <<embedq, embedReq>>
    /\ UNCHANGED <<is_capturing, window, screen, capVars, raw, processed, ocrq,
                   hashVars, ocrVars, indexPc, indexResult, frames_indexed,
                   config, frames_ocr_pending, dbVars, shutPc, ipcVars,
                   crashVars,
                   searchVars, portalVars, startVars, privVars, delVars>>

\* client.embed(&req.text): Ok(Some(v)), or Ok(None) / Err (request dropped)
EmbedCall ==
    /\ embedPc = "embed"
    /\ \/ embedPc' = "insert" /\ UNCHANGED embedReq
       \/ embedPc' = "recv" /\ embedReq' = 0
    /\ UNCHANGED <<is_capturing, window, screen, capVars, chanVars, hashVars, ocrVars,
                   indexPc, indexResult, frames_indexed, config,
                   frames_ocr_pending, dbVars, shutPc, ipcVars, crashVars,
                   searchVars, portalVars, startVars, privVars, delVars>>

\* INSERT INTO ocr_embeddings ...; UPDATE screenshots SET embedding_status.
\* "stop" names the first statement that failed ("none": both succeeded).
insert_embedding(screenshot_id, stop) ==
    [emb |-> IF stop = "insert" THEN ocr_embeddings
             ELSE ocr_embeddings \cup {screenshot_id},
     rows |-> IF stop = "none" /\ screenshot_id \in DOMAIN screenshots
              THEN [screenshots EXCEPT ![screenshot_id].embedding_status = "done"]
              ELSE screenshots]

\* the vector table's primary key rejects a second row for the same id
EmbeddingStops(screenshot_id) ==
    IF screenshot_id \in ocr_embeddings THEN {"insert"}
    ELSE {"none", "insert", "update"}

EmbedInsert ==
    /\ embedPc = "insert"
    /\ \E stop \in EmbeddingStops(embedReq) :
          LET w == insert_embedding(embedReq, stop) IN
          /\ ocr_embeddings' = w.emb
          /\ screenshots' = w.rows
    /\ embedPc' = "recv"
    /\ embedReq' = 0
    /\ UNCHANGED <<is_capturing, window, screen, capVars, chanVars, hashVars, ocrVars,
                   indexPc, indexResult, frames_indexed, config,
                   frames_ocr_pending, next_id, ocr_text_content, ocr_fts,
                   ocr_bounding_boxes, files, shutPc, ipcVars, crashVars,
                   searchVars, portalVars, startVars, privVars, delVars>>

(***************************************************************************)
(* Deletion: delete_screenshots_before / delete_screenshots_in_range.       *)
(***************************************************************************)
\* a delete that leaves the FTS statement out
delete_fts_rows_skipped(ids) == ocr_fts

\* DELETE FROM ocr_fts WHERE screenshot_id IN (SELECT id FROM screenshots ...)
delete_fts_rows(ids) == ocr_fts \ ids

\* REFERENCES screenshots(id) ON DELETE CASCADE of the schema, on the tables
\* ocr_text_content and ocr_bounding_boxes
on_delete_cascade(table, ids) == table \ ids

\* DELETE FROM screenshots WHERE ...: the rows, and the rows that cascade
delete_screenshot_rows(ids) ==
    [rows |-> Restrict(screenshots, DOMAIN screenshots \ ids),
     otc |-> on_delete_cascade(ocr_text_content, ids),
     boxes |-> on_delete_cascade(ocr_bounding_boxes, ids)]

\* Self::remove_files(&paths)
remove_files(paths) == files \ paths

\* the whole operation on the matched ids; "stop" names the first statement
\* that failed ("none": all succeeded and the files are unlinked)
delete_screenshots(ids, stop) ==
    LET d == delete_screenshot_rows(ids) IN
    [fts |-> IF stop \in {"collect", "fts"} THEN ocr_fts ELSE delete_fts_rows(ids),
     rows |-> IF stop = "none" THEN d.rows ELSE screenshots,
     otc |-> IF stop = "none" THEN d.otc ELSE ocr_text_content,
     boxes |-> IF stop = "none" THEN d.boxes ELSE ocr_bounding_boxes,
     files |-> IF stop = "none" THEN remove_files(collect_screenshot_paths(ids))
               ELSE files]

\* arguments the UI passes to DeleteRange
DeleteArgs == {<<0, 30>>, <<0, 100>>}

\* DaemonService::delete_range
DeleteRange ==
    /\ deletes < MaxDeletes
    /\ deletes' = deletes + 1
    /\ \E arg \in DeleteArgs, stop \in {"none", "collect", "fts", "rows"} :
          LET w == delete_screenshots(MatchRange(arg[1], arg[2]), stop) IN
          /\ ocr_fts' = w.fts
          /\ screenshots' = w.rows
          /\ ocr_text_content' = w.otc
          /\ ocr_bounding_boxes' = w.boxes
          /\ files' = w.files
          /\ deleted_ranges' = IF stop = "none" /\ arg[2] * MsPerSec <= now
                                THEN deleted_ranges \cup {arg}
                                ELSE deleted_ranges
    /\ UNCHANGED <<is_capturing, window, screen, capVars, chanVars, hashVars, ocrVars,
                   tailVars, frames_ocr_pending, next_id, ocr_embeddings, shutPc,
                   last_call, last_ok, crashVars,
                   searchVars, portalVars, startVars, privVars>>

(***************************************************************************)
(* PipelineHandle::shutdown.                                                *)
(***************************************************************************)
\* is_capturing.store(false); capture_task.abort()
ShutdownStart ==
    /\ shutPc = "running"
    /\ is_capturing' = FALSE
    /\ shutPc' = "abort"
    /\ UNCHANGED <<window, screen, capVars, chanVars, hashVars, ocrVars, tailVars,
                   frames_ocr_pending, dbVars, ipcVars, crashVars,
                   searchVars, portalVars, startVars, privVars, delVars>>

\* let _ = self.capture_task.await
ShutdownCaptureJoined ==
    /\ shutPc = "abort"
    /\ capPc \in {"finished", "aborted"}
    /\ shutPc' = "drain"
    /\ UNCHANGED <<is_capturing, window, screen, capVars, chanVars, hashVars, ocrVars,
                   tailVars, frames_ocr_pending, dbVars, ipcVars, crashVars,
                   searchVars, portalVars, startVars, privVars, delVars>>

StagesFinished ==
    /\ hashPc = "finished"
    /\ ocrPc = "finished"
    /\ indexPc = "finished"
    /\ embedPc = "finished"

\* timeout(30 s, join of the four downstream tasks): the joins complete
ShutdownDrained ==
    /\ shutPc = "drain"
    /\ StagesFinished
    /\ shutPc' = "returned"
    /\ UNCHANGED <<is_capturing, window, screen, capVars, chanVars, hashVars, ocrVars,
                   tailVars, frames_ocr_pending, dbVars, ipcVars, crashVars,
                   searchVars, portalVars, startVars, privVars, delVars>>

\* ... or the 30 s elapse first
ShutdownTimeout ==
    /\ shutPc = "drain"
    /\ ~StagesFinished
    /\ shutPc' = "timed_out"
    /\ UNCHANGED <<is_capturing, window, screen, capVars, chanVars, hashVars, ocrVars,
                   tailVars, frames_ocr_pending, dbVars, ipcVars, crashVars,
                   searchVars, portalVars, startVars, privVars, delVars>>

(***************************************************************************)
(* The daemon: start_pipeline, then the tasks and the D-Bus calls.          *)
(***************************************************************************)
Configs == [ocr_enabled : BOOLEAN, semantic_enabled : BOOLEAN]

\* OcrConfig::default().enabled, SemanticConfig::default().enabled
DefaultConfig == [ocr_enabled |-> TRUE, semantic_enabled |-> FALSE]

InitDb ==
    /\ screenshots = <<>>
    /\ next_id = 1
    /\ ocr_text_content = {}
    /\ ocr_fts = {}
    /\ ocr_bounding_boxes = {}
    /\ ocr_embeddings = {}
    /\ files = {}

\* SharedState { frame: Mutex::new(None), .. } and format_info = None
NoCapture == [ok |-> FALSE, frame |-> 0, produced |-> <<>>]

InitPortal ==
    /\ shared_frame = {}
    /\ format_info = FALSE
    /\ pumped = 0
    /\ since_read = <<>>
    /\ portal_result = NoCapture

InitIdleClient ==
    /\ dbPc = "idle"
    /\ dbArg = 0

\* the state start_pipeline leaves
InitPipelineStarted ==
    /\ is_capturing = TRUE
    /\ window = NoWindow
    /\ screen = HashA
    /\ now = 0
    /\ ticks = 0
    /\ capPc = "loop_head"
    /\ capFrame = NoFrame
    /\ raw = <<>>
    /\ processed = <<>>
    /\ ocrq = <<>>
    /\ embedq = <<>>
    /\ hashPc = "recv"
    /\ hashFrame = NoFrame
    /\ hashQuery = NoQuery
    /\ ocrPc = "recv"
    /\ ocrFrame = NoFrame
    /\ ocrTasks = {}
    /\ indexPc = "recv"
    /\ indexResult = 0
    /\ embedPc = "recv"
    /\ embedReq = 0
    /\ frames_captured = 0
    /\ frames_deduplicated = 0
    /\ frames_ocr_pending = 0
    /\ frames_indexed = 0
    /\ InitDb
    /\ shutPc = "running"
    /\ last_call = [method |-> "none", result |-> "none"]
    /\ last_ok = <<"none", "none">>
    /\ deletes = 0
    /\ tx = NoTx
    /\ InitPortal
    /\ ocr_text = <<>>
    /\ excluded_dropped = {}
    /\ pixels_window = NoWindow
    /\ emitted_under = {}
    /\ callbacks = <<>>
    /\ deleted_ranges = {}

\* run_daemon has started the KWin window info provider; the desktop shows
\* no window
InitStarted ==
    /\ mainPc = "provider_started"
    /\ kwin_window_info = {"KWin"}
    /\ script_loaded = TRUE
    /\ active_window = NoWindow

InitDaemon == InitPipelineStarted /\ InitIdleClient /\ InitStarted

Init == InitDaemon /\ config = DefaultConfig

InitPipeline == InitDaemon /\ config \in Configs

\* the capture task while it runs, with the clock steps and the number of
\* wake-ups of the run
CaptureRun(deltas, limit) ==
    \/ CaptureLoopHead
    \/ NextFrameWake(deltas, limit)
    \/ NextFrameCapture
    \/ NextFrameFilter
    \/ CaptureSend

HashTask == HashRecv \/ HashCheck \/ HashSave \/ HashInsert \/ HashSend

OcrStage == OcrDrain \/ OcrRecv \/ OcrSpawn

OcrTask ==
    \E t \in ocrTasks :
        OcrTaskMark(t) \/ OcrTaskTesseract(t) \/ OcrTaskFinish(t) \/ OcrTaskSend(t)

IndexTask == IndexRecv \/ IndexWrite \/ IndexSend

EmbedTask == EmbedRecv \/ EmbedCall \/ EmbedInsert

Shutdown ==
    ShutdownStart \/ ShutdownCaptureJoined \/ ShutdownDrained \/ ShutdownTimeout

\* capture task under Pause / Resume calls and the start of shutdown
Next ==
    \/ CaptureRun(Deltas, MaxTicks)
    \/ NextFramePausedWake
    \/ CaptureAborted
    \/ Pause
    \/ Resume
    \/ ShutdownStart
    \/ ShutdownCaptureJoined

Spec == Init /\ [][Next]_vars

\* capture task and hash stage while the active window changes
NextPrivacy ==
    \/ CaptureRun(Deltas, MaxTicks)
    \/ HashTask
    \/ ReportActiveWindow

SpecPrivacy == Init /\ [][NextPrivacy]_vars

\* capture task and hash stage under changing screen content and
\* DeleteRange calls
NextDedup ==
    \/ CaptureRun(Deltas, MaxTicks)
    \/ HashTask
    \/ ScreenChange
    \/ DeleteRange

SpecDedup == Init /\ [][NextDedup]_vars

\* the five stages and shutdown; every wake-up is a full look-back later
NextPipeline ==
    \/ CaptureRun({29001}, MaxPipelineTicks)
    \/ CaptureAborted
    \/ HashTask
    \/ OcrStage
    \/ OcrTask
    \/ IndexTask
    \/ EmbedTask
    \/ Shutdown

SpecPipeline == InitPipeline /\ [][NextPipeline]_vars

(***************************************************************************)
(* Storage at statement granularity, with crashes.  One client holds the    *)
(* connection (the Mutex<Database>), so operations do not interleave; a     *)
(* statement may fail, and the process may die between two statements.      *)
(* The table variables are the committed state; tx holds the writes of the  *)
(* open transaction.                                                        *)
(***************************************************************************)
\* timestamps of the rows the client inserts, and the cuts it deletes at
StorageTimes == {100, 300}
StorageCuts == {300, 400}
StorageRanges == {<<100, 300>>, <<200, 400>>}

storeUnchanged ==
    UNCHANGED <<is_capturing, window, screen, capVars, chanVars, hashVars,
                ocrVars, tailVars, frames_ocr_pending, shutPc, ipcVars,
                searchVars, portalVars, startVars, privVars, delVars>>

\* insert_screenshot: one autocommit INSERT
StoreInsertScreenshot ==
    /\ dbPc = "idle"
    /\ next_id <= MaxRows
    /\ \E t \in StorageTimes :
          screenshots' = screenshots @@
              (next_id :> NewScreenshot(
                  [timestamp |-> t * MsPerSec, hash |-> HashA, window |-> NoWindow]))
    /\ next_id' = next_id + 1
    /\ UNCHANGED <<ocr_text_content, ocr_fts, ocr_bounding_boxes, ocr_embeddings,
                   files, crashVars,
                   searchVars, portalVars, startVars, privVars, delVars>>
    /\ storeUnchanged

\* insert_ocr_text: let tx = self.conn.unchecked_transaction()?
InsertOcrTextBegin ==
    /\ dbPc = "idle"
    /\ \E id \in DOMAIN screenshots :
          /\ id \notin ocr_text_content
          /\ dbArg' = id
    /\ dbPc' = "otc_insert"
    /\ tx' = NoTx
    /\ UNCHANGED dbVars
    /\ storeUnchanged

\* the first INSERT run on the connection, outside the transaction
InsertOcrTextRowDirect ==
    /\ dbPc = "otc_insert"
    /\ \/ /\ ocr_text_content' = ocr_text_content \cup {dbArg}
          /\ dbPc' = "fts_insert"
          /\ UNCHANGED <<tx, dbArg>>
       \/ /\ dbPc' = "idle"
          /\ tx' = NoTx
          /\ dbArg' = 0
          /\ UNCHANGED ocr_text_content
    /\ UNCHANGED <<screenshots, next_id, ocr_fts, ocr_bounding_boxes,
                   ocr_embeddings, files>>
    /\ storeUnchanged

\* tx.execute("INSERT INTO ocr_text_content ...")?
InsertOcrTextRow ==
    /\ dbPc = "otc_insert"
    /\ \/ /\ tx' = [tx EXCEPT !.otc = @ \cup {dbArg}]
          /\ dbPc' = "fts_insert"
          /\ UNCHANGED dbArg
       \/ /\ dbPc' = "idle"
          /\ tx' = NoTx
          /\ dbArg' = 0
    /\ UNCHANGED dbVars
    /\ storeUnchanged

\* tx.execute("INSERT INTO ocr_fts ...")?
InsertOcrTextFts ==
    /\ dbPc = "fts_insert"
    /\ \/ /\ tx' = [tx EXCEPT !.fts = @ \cup {dbArg}]
          /\ dbPc' = "otc_commit"
          /\ UNCHANGED dbArg
       \/ /\ dbPc' = "idle"
          /\ tx' = NoTx
          /\ dbArg' = 0
    /\ UNCHANGED dbVars
    /\ storeUnchanged

\* tx.commit()?: the transaction's writes become the committed state, or the
\* commit fails and the transaction is rolled back
InsertOcrTextCommit ==
    /\ dbPc = "otc_commit"
    /\ \/ /\ ocr_text_content' = ocr_text_content \cup tx.otc
          /\ ocr_fts' = ocr_fts \cup tx.fts
       \/ UNCHANGED <<ocr_text_content, ocr_fts>>
    /\ dbPc' = "idle"
    /\ tx' = NoTx
    /\ dbArg' = 0
    /\ UNCHANGED <<screenshots, next_id, ocr_bounding_boxes, ocr_embeddings, files>>
    /\ storeUnchanged

\* insert_bounding_boxes: transaction, one INSERT per box, commit
InsertBoxesBegin ==
    /\ dbPc = "idle"
    /\ \E id \in DOMAIN screenshots :
          /\ id \notin ocr_bounding_boxes
          /\ dbArg' = id
    /\ dbPc' = "box_insert"
    /\ tx' = NoTx
    /\ UNCHANGED dbVars
    /\ storeUnchanged

InsertBoxesRow ==
    /\ dbPc = "box_insert"
    /\ \/ /\ tx' = [tx EXCEPT !.boxes = @ \cup {dbArg}]
          /\ dbPc' = "box_commit"
          /\ UNCHANGED dbArg
       \/ /\ dbPc' = "idle"
          /\ tx' = NoTx
          /\ dbArg' = 0
    /\ UNCHANGED dbVars
    /\ storeUnchanged

InsertBoxesCommit ==
    /\ dbPc = "box_commit"
    /\ \/ ocr_bounding_boxes' = ocr_bounding_boxes \cup tx.boxes
       \/ UNCHANGED ocr_bounding_boxes
    /\ dbPc' = "idle"
    /\ tx' = NoTx
    /\ dbArg' = 0
    /\ UNCHANGED <<screenshots, next_id, ocr_text_content, ocr_fts,
                   ocr_embeddings, files>>
    /\ storeUnchanged

\* insert_embedding: autocommit INSERT INTO ocr_embeddings ...
StoreEmbeddingInsert ==
    /\ dbPc = "idle"
    /\ \E id \in DOMAIN screenshots :
          \E stop \in EmbeddingStops(id) \ {"update"} :
             /\ ocr_embeddings' = insert_embedding(id, stop).emb
             /\ IF stop = "none"
                THEN dbPc' = "emb_update" /\ dbArg' = id
                ELSE UNCHANGED <<dbPc, dbArg>>
    /\ UNCHANGED <<screenshots, next_id, ocr_text_content, ocr_fts,
                   ocr_bounding_boxes, files, tx>>
    /\ storeUnchanged

\* ... then autocommit UPDATE screenshots SET embedding_status = 'done'
StoreEmbeddingStatus ==
    /\ dbPc = "emb_update"
    /\ \E stop \in {"none", "update"} :
          screenshots' = insert_embedding(dbArg, stop).rows
    /\ dbPc' = "idle"
    /\ dbArg' = 0
    /\ UNCHANGED <<next_id, ocr_text_content, ocr_fts, ocr_bounding_boxes,
                   ocr_embeddings, files, tx>>
    /\ storeUnchanged

\* ids an open delete call matches, evaluated by the statement that runs
Matched(call) ==
    IF call.op = "before" THEN MatchBefore(call.end)
    ELSE MatchRange(call.start, call.end)

\* delete_screenshots_before / _in_range: collect_screenshot_paths(...)?
\* "matched" remembers the rows the call matched when it started
DeleteCollect ==
    /\ dbPc = "idle"
    /\ \E call \in [op : {"before"}, start : {0}, end : StorageCuts]
                   \cup {[op |-> "range", start |-> r[1], end |-> r[2]] :
                            r \in StorageRanges} :
          \/ /\ dbPc' = "del_fts"
             /\ dbArg' = [call |-> call, matched |-> Matched(call),
                          paths |-> collect_screenshot_paths(Matched(call)),
                          count |-> 0]
          \/ UNCHANGED <<dbPc, dbArg>>
    /\ UNCHANGED <<dbVars, tx>>
    /\ storeUnchanged

\* variant with the two DELETE statements in the opposite order: the
\* screenshots go first, and the subquery of the FTS DELETE then matches
\* nothing
DeleteFtsAfterRows ==
    /\ dbPc = "del_fts"
    /\ \/ LET d == delete_screenshot_rows(Matched(dbArg.call)) IN
          /\ screenshots' = d.rows
          /\ ocr_text_content' = d.otc
          /\ ocr_bounding_boxes' = d.boxes
          /\ ocr_fts' = ocr_fts \ {id \in ocr_fts : id \in Matched(dbArg.call)
                                                    /\ id \in DOMAIN d.rows}
          /\ dbPc' = "del_rows"
          /\ UNCHANGED dbArg
       \/ /\ dbPc' = "idle"
          /\ dbArg' = 0
          /\ UNCHANGED <<screenshots, ocr_text_content, ocr_bounding_boxes, ocr_fts>>
    /\ UNCHANGED <<next_id, ocr_embeddings, files, tx>>
    /\ storeUnchanged

\* self.conn.execute("DELETE FROM ocr_fts WHERE screenshot_id IN (...)")?
DeleteFts ==
    /\ dbPc = "del_fts"
    /\ \/ /\ ocr_fts' = delete_fts_rows(Matched(dbArg.call))
          /\ dbPc' = "del_rows"
          /\ UNCHANGED dbArg
       \/ /\ dbPc' = "idle"
          /\ dbArg' = 0
          /\ UNCHANGED ocr_fts
    /\ UNCHANGED <<screenshots, next_id, ocr_text_content, ocr_bounding_boxes,
                   ocr_embeddings, files, tx>>
    /\ storeUnchanged

\* let count = self.conn.execute("DELETE FROM screenshots WHERE ...")?
DeleteRows ==
    /\ dbPc = "del_rows"
    /\ \/ LET d == delete_screenshot_rows(Matched(dbArg.call)) IN
          /\ screenshots' = d.rows
          /\ ocr_text_content' = d.otc
          /\ ocr_bounding_boxes' = d.boxes
          /\ dbPc' = "del_files"
          /\ dbArg' = [dbArg EXCEPT !.count =
                          Cardinality(DOMAIN screenshots) - Cardinality(DOMAIN d.rows)]
       \/ /\ dbPc' = "idle"
          /\ dbArg' = 0
          /\ UNCHANGED <<screenshots, ocr_text_content, ocr_bounding_boxes>>
    /\ UNCHANGED <<next_id, ocr_fts, ocr_embeddings, files, tx>>
    /\ storeUnchanged

\* Self::remove_files(&paths); Ok(count)
DeleteFiles ==
    /\ dbPc = "del_files"
    /\ files' = remove_files(dbArg.paths)
    /\ dbPc' = "deleted"
    /\ UNCHANGED <<screenshots, next_id, ocr_text_content, ocr_fts,
                   ocr_bounding_boxes, ocr_embeddings, tx, dbArg>>
    /\ storeUnchanged

\* the caller takes the Ok(count)
DeleteReturn ==
    /\ dbPc = "deleted"
    /\ dbPc' = "idle"
    /\ dbArg' = 0
    /\ UNCHANGED <<dbVars, tx>>
    /\ storeUnchanged

\* the process dies inside an operation: the open transaction is lost, the
\* committed tables stay, and the restarted process starts idle
Crash ==
    /\ dbPc \notin {"idle", "deleted"}
    /\ dbPc' = "idle"
    /\ tx' = NoTx
    /\ dbArg' = 0
    /\ UNCHANGED dbVars
    /\ storeUnchanged

InitStorage ==
    /\ InitDaemon
    /\ config = DefaultConfig

NextStorage ==
    \/ StoreInsertScreenshot
    \/ InsertOcrTextBegin
    \/ InsertOcrTextRow
    \/ InsertOcrTextFts
    \/ InsertOcrTextCommit
    \/ InsertBoxesBegin
    \/ InsertBoxesRow
    \/ InsertBoxesCommit
    \/ StoreEmbeddingInsert
    \/ StoreEmbeddingStatus
    \/ DeleteCollect
    \/ DeleteFts
    \/ DeleteRows
    \/ DeleteFiles
    \/ DeleteReturn
    \/ Crash

SpecStorage == InitStorage /\ [][NextStorage]_vars

\* the five stages around one shutdown() call
NextShutdown ==
    \/ CaptureRun({29001}, MaxShutdownTicks)
    \/ CaptureAborted
    \/ HashTask
    \/ OcrStage
    \/ OcrTask
    \/ IndexTask
    \/ EmbedTask
    \/ Shutdown

SpecShutdown == InitPipeline /\ [][NextShutdown]_vars

\* the same under the tokio scheduler: a task that can take a step is
\* polled, a blocking call returns, and the timeout of shutdown() fires
FairShutdown ==
    /\ SpecShutdown
    /\ WF_vars(CaptureRun({29001}, MaxShutdownTicks))
    /\ WF_vars(CaptureAborted)
    /\ WF_vars(HashTask)
    /\ WF_vars(OcrStage)
    /\ WF_vars(OcrTask)
    /\ WF_vars(IndexTask)
    /\ WF_vars(EmbedTask)
    /\ WF_vars(Shutdown)

(***************************************************************************)
(* Properties.                                                             *)
(***************************************************************************)
OcrRank(status) ==
    CASE status = "pending" -> 0
      [] status = "processing" -> 1
      [] OTHER -> 2

\* C1: when the hash stage has inserted the row of a frame whose recent-hash
\* query succeeded, no other row with an identical perceptual hash has a
\* timestamp less than 30 seconds away: identical frames within one
\* 30-second window give at most one row.
C1_OneRowPerWindow ==
    (hashPc = "send" /\ hashQuery.ok) =>
        \A id \in DOMAIN screenshots \ {hashFrame.screenshot_id} :
            screenshots[id].perceptual_hash
                    = screenshots[hashFrame.screenshot_id].perceptual_hash
                /\ hashFrame.screenshot_id \in DOMAIN screenshots
            => hashFrame.timestamp - screenshots[id].timestamp_ms
                    >= LookbackSecs * MsPerSec

\* C2: a frame that next_frame returns, that waits in the raw channel, that
\* the hash stage holds, or that became a screenshot row, carries window
\* metadata that is not excluded; a frame dropped as excluded is in no
\* channel, has no row and no file.
C2_NoExcludedFrame ==
    /\ capPc = "send" =>
          ~is_excluded(capFrame.window, excluded_apps, excluded_title_patterns)
    /\ \A i \in 1..Len(raw) :
          /\ ~is_excluded(raw[i].window, excluded_apps, excluded_title_patterns)
          /\ raw[i].timestamp \notin excluded_dropped
    /\ hashPc \in {"check", "save", "insert"} =>
          /\ ~is_excluded(hashFrame.window, excluded_apps, excluded_title_patterns)
          /\ hashFrame.timestamp \notin excluded_dropped
    /\ \A id \in DOMAIN screenshots :
          /\ ~is_excluded(screenshots[id].window, excluded_apps,
                          excluded_title_patterns)
          /\ screenshots[id].timestamp_ms \notin excluded_dropped
    /\ \A t \in excluded_dropped :
          /\ screenshot_path(t) \notin files
          /\ thumbnail_path(t) \notin files

\* C2 witness: a frame of an excluded window was dropped, and a frame of a
\* window with metadata became a row with its files
C2_Witness ==
    /\ excluded_dropped # {}
    /\ \E id \in DOMAIN screenshots :
          /\ screenshots[id].window.app_name # {}
          /\ screenshot_path(screenshots[id].timestamp_ms) \in files

\* C3 as stated: the successful Pause and Resume calls strictly alternate
C3_StrictAlternation ==
    last_ok[2] # "none" => last_ok[1] # last_ok[2]

\* C3: Pause() while not capturing and Resume() while capturing return an
\* error and leave is_capturing unchanged; a successful Pause() sets it to
\* false and a successful Resume() sets it to true; and until shutdown()
\* stores false, the successful calls strictly alternate, starting with a
\* Pause.
C3_PauseResume ==
    /\ [](shutPc = "running" =>
            /\ last_ok[2] # "none" => last_ok[1] # last_ok[2]
            /\ (last_ok[1] = "none" /\ last_ok[2] # "none") => last_ok[2] = "Pause"
            /\ last_ok[2] = "Pause" => ~is_capturing
            /\ last_ok[2] = "Resume" => is_capturing)
    /\ [][/\ (last_call' # last_call /\ last_call'.result = "Err") =>
              /\ is_capturing' = is_capturing
              /\ last_ok' = last_ok
              /\ last_call'.method = "Pause" => ~is_capturing
              /\ last_call'.method = "Resume" => is_capturing
          /\ (is_capturing' # is_capturing /\ shutPc' = shutPc) =>
              /\ last_call'.result = "Ok"
              /\ last_call'.method = (IF is_capturing THEN "Pause" ELSE "Resume")
              /\ last_ok'[2] = last_call'.method]_vars

\* C3 witness: Pause and Resume have succeeded in turn and a second Resume
\* was refused
C3_Witness ==
    /\ shutPc = "running"
    /\ last_ok = <<"Pause", "Resume">>
    /\ last_call = [method |-> "Resume", result |-> "Err"]
    /\ is_capturing

\* C4: the capture stage stays alive while capture is paused: its task ends
\* only with the shutdown of the pipeline.
C4_CaptureStaysAlive ==
    capPc = "finished" => shutPc # "running"

\* C5: once shutdown() has begun, the hash, OCR, index and embed stages all
\* terminate, the OCR tasks have ended, and shutdown() returns.
C5_ShutdownLiveness ==
    /\ (shutPc # "running") ~> (StagesFinished /\ ocrTasks = {})
    /\ (shutPc # "running") ~> (shutPc \in {"returned", "timed_out"})

\* C5 witness: shutdown() has returned after the stages drained frames that
\* had been captured, OCRed and indexed
C5_Witness ==
    /\ shutPc = "returned"
    /\ StagesFinished
    /\ frames_indexed > 0
    /\ raw = <<>> /\ processed = <<>> /\ ocrq = <<>>

\* C6: every step of an insert_ocr_text call (a statement, a failure, the
\* commit, a crash) adds the same rows to the committed ocr_text_content and
\* ocr_fts tables and removes none: both rows appear, or neither.
C6_InsertOcrTextAtomic ==
    [][(dbPc \in {"otc_insert", "fts_insert", "otc_commit"}) =>
          /\ ocr_text_content' \ ocr_text_content = ocr_fts' \ ocr_fts
          /\ ocr_text_content \subseteq ocr_text_content'
          /\ ocr_fts \subseteq ocr_fts' ]_vars

\* C6 witness: one insert_ocr_text call has committed both rows and another
\* has left none
C6_Witness ==
    /\ dbPc = "idle"
    /\ \E id \in DOMAIN screenshots :
          id \in ocr_text_content /\ id \in ocr_fts
    /\ \E id \in DOMAIN screenshots :
          id \notin ocr_text_content /\ id \notin ocr_fts

\* C7: when delete_screenshots_before(T) has returned Ok, no row of
\* ocr_text_content, ocr_bounding_boxes or ocr_fts belongs to a screenshot
\* that had timestamp < T when the call started.
C7_DeleteCascade ==
    (dbPc = "deleted" /\ dbArg.call.op = "before") =>
        \A id \in dbArg.matched :
            /\ id \notin ocr_text_content
            /\ id \notin ocr_bounding_boxes
            /\ id \notin ocr_fts
            /\ id \notin DOMAIN screenshots

\* C7 witness: delete_screenshots_before returned Ok after matching a
\* screenshot, while a later screenshot keeps its OCR rows
C7_Witness ==
    /\ dbPc = "deleted"
    /\ dbArg.call.op = "before"
    /\ dbArg.matched # {}
    /\ \E id \in DOMAIN screenshots :
          id \in ocr_text_content /\ id \in ocr_fts /\ id \in ocr_bounding_boxes

\* C8: no state is reachable in which the FTS row of a still-existing
\* screenshot with OCR text is gone.
C8_AllOrNothing ==
    \A id \in DOMAIN screenshots :
        id \in ocr_text_content => id \in ocr_fts

\* C9: when a delete has returned Ok, no row of the vector table refers to
\* a screenshot the call deleted.
C9_EmbeddingRemoved ==
    dbPc = "deleted" =>
        \A id \in dbArg.matched : id \notin ocr_embeddings

\* C10 as stated: ocr_status changes only pending -> processing,
\* processing -> done or processing -> failed
C10_ThreeSteps ==
    [][\A id \in DOMAIN screenshots \cap DOMAIN screenshots' :
          screenshots'[id].ocr_status # screenshots[id].ocr_status =>
              <<screenshots[id].ocr_status, screenshots'[id].ocr_status>> \in
                  {<<"pending", "processing">>, <<"processing", "done">>,
                   <<"processing", "failed">>}]_vars

\* C10: a new row starts as pending; ocr_status only moves forward in the
\* order pending, processing, {done, failed} (processing is skipped when
\* its write fails), is never set back, and never changes once it is done
\* or failed.
C10_ForwardOnly ==
    [][/\ \A id \in DOMAIN screenshots' \ DOMAIN screenshots :
              screenshots'[id].ocr_status = "pending"
       /\ \A id \in DOMAIN screenshots \cap DOMAIN screenshots' :
              /\ OcrRank(screenshots'[id].ocr_status)
                     >= OcrRank(screenshots[id].ocr_status)
              /\ screenshots[id].ocr_status \in {"done", "failed"} =>
                     screenshots'[id].ocr_status = screenshots[id].ocr_status]_vars

\* C10 witness: the index stage has set one row to done, and the OCR of
\* another row has ended while the row is still pending because the write
\* of processing failed
C10_Witness ==
    /\ \E id \in DOMAIN screenshots :
          screenshots[id].ocr_status = "done" /\ id \in ocr_text_content
    /\ \E t \in ocrTasks :
          /\ t.pc \in {"mark_done", "mark_failed", "send"}
          /\ screenshots[t.screenshot_id].ocr_status = "pending"

\* C11: frames_captured is at most the number of rows the hash stage has
\* inserted; stated for the moments at which no frame is on its way from
\* the capture stage to the hash stage's insert, so that a frame dropped by
\* dedup is not counted as captured.
C11_CapturedOnlyWithRow ==
    (raw = <<>> /\ hashPc = "recv" /\ capPc # "send") =>
        frames_captured <= next_id - 1

(***************************************************************************)
(* Search: Database::search, search_deduped and deduplicate_results.        *)
(* A text is a sequence of tokens, a token a string of the model.           *)
(***************************************************************************)
\* const DEDUP_THRESHOLD: u32 = 5
DEDUP_THRESHOLD == 5
\* (filters.limit * 3).min(300)
OverfetchFactor == 3
OverfetchCap == 300

Min(a, b) == IF a < b THEN a ELSE b

\* the NOT operator of the FTS5 query syntax (operators are upper case)
OpNot == <<Uc("n"), Uc("o"), Uc("t")>>

\* the tokenizer folds case: a query token is in a text when they are equal
\* in lower case
token_in(token, text) ==
    \E j \in 1..Len(text) : to_lowercase(text[j]) = to_lowercase(token)

\* ocr_fts MATCH ?1 raises a syntax error for a query that is empty or has
\* NOT without an operand on either side
fts5_syntax_error(query) ==
    \/ query = <<>>
    \/ query[1] = OpNot
    \/ query[Len(query)] = OpNot
    \/ \E i \in 1..(Len(query) - 1) : query[i] = OpNot /\ query[i + 1] = OpNot

\* ocr_fts MATCH ?1 on one row: tokens side by side are an implicit AND,
\* which binds tighter than NOT; "p NOT q NOT r" is (p NOT q) NOT r
fts5_match(query, text) ==
    LET nots == {i \in 1..Len(query) : query[i] = OpNot}
        until(k) == IF \E i \in nots : i > k
                    THEN CHOOSE i \in nots : i > k /\ \A j \in nots : j > k => i <= j
                    ELSE Len(query) + 1
    IN  /\ \A i \in 1..(until(0) - 1) : token_in(query[i], text)
        /\ \A k \in nots :
              ~(\A i \in (k + 1)..(until(k) - 1) : token_in(query[i], text))

\* a WHERE clause without the app_name term
filter_match_any_app(id, filters) ==
    /\ id \in ocr_fts
    /\ id \in DOMAIN ocr_text
    /\ id \in DOMAIN screenshots
    /\ fts5_match(filters.query, ocr_text[id])
    /\ \A t \in filters.start_time : screenshots[id].timestamp >= t
    /\ \A t \in filters.end_time : screenshots[id].timestamp <= t

\* the WHERE clause of search_deduped and search_count on the row of id
filter_match(id, filters) ==
    /\ id \in ocr_fts
    /\ id \in DOMAIN ocr_text
    /\ id \in DOMAIN screenshots
    /\ fts5_match(filters.query, ocr_text[id])
    /\ \A t \in filters.start_time : screenshots[id].timestamp >= t
    /\ \A t \in filters.end_time : screenshots[id].timestamp <= t
    /\ \A a \in filters.app_name : screenshots[id].window.app_name = {a}

\* ORDER BY rank: bm25 prefers the shorter of two texts with the same hits;
\* rows of equal rank come in rowid order
rank_before(a, b) ==
    \/ Len(ocr_text[a]) < Len(ocr_text[b])
    \/ Len(ocr_text[a]) = Len(ocr_text[b]) /\ a < b

RECURSIVE order_by_rank(_)
order_by_rank(ids) ==
    IF ids = {} THEN <<>>
    ELSE LET first == CHOOSE x \in ids : \A y \in ids \ {x} : rank_before(x, y)
         IN  <<first>> \o order_by_rank(ids \ {first})

\* LIMIT ?5 OFFSET ?6, and results[start..end]
page(rows, limit, offset) ==
    SubSeq(rows, offset + 1, Min(offset + limit, Len(rows)))

\* SearchResult built from a row: group_count and group_screenshot_ids None
SearchResult(id) ==
    [id |-> id, group_count |-> {}, group_screenshot_ids |-> {}]

\* hash_map.get(&id)
has_hash(id) == id \in DOMAIN screenshots

\* variant of the loop in which a result joins the last group within the
\* threshold
RECURSIVE dedup_groups_last(_, _, _, _)
dedup_groups_last(results, threshold, i, groups) ==
    IF i > Len(results) THEN groups
    ELSE
      LET id == results[i].id
          near == {g \in 1..Len(groups) :
                     /\ has_hash(results[groups[g].rep].id)
                     /\ has_hash(id)
                     /\ hamming_distance(
                            screenshots[id].perceptual_hash,
                            screenshots[results[groups[g].rep].id].perceptual_hash)
                          <= threshold}
          next == IF near = {}
                  THEN Append(groups, [rep |-> i, members |-> <<id>>])
                  ELSE LET g == CHOOSE x \in near : \A y \in near : x >= y
                       IN  [groups EXCEPT ![g].members = Append(@, id)]
      IN  dedup_groups_last(results, threshold, i + 1, next)

\* the greedy grouping loop of deduplicate_results, from result i on
RECURSIVE dedup_groups(_, _, _, _)
dedup_groups(results, threshold, i, groups) ==
    IF i > Len(results) THEN groups
    ELSE
      LET id == results[i].id
          near == {g \in 1..Len(groups) :
                     /\ has_hash(results[groups[g].rep].id)
                     /\ has_hash(id)
                     /\ hamming_distance(
                            screenshots[id].perceptual_hash,
                            screenshots[results[groups[g].rep].id].perceptual_hash)
                          <= threshold}
          next == IF near = {}
                  THEN Append(groups, [rep |-> i, members |-> <<id>>])
                  ELSE LET g == CHOOSE x \in near : \A y \in near : x <= y
                       IN  [groups EXCEPT ![g].members = Append(@, id)]
      IN  dedup_groups(results, threshold, i + 1, next)

\* a representative that takes the group fields of every group, also of a
\* group of one
dedup_entry_always(result, members) ==
    [result EXCEPT !.group_count = {Len(members)},
                   !.group_screenshot_ids = {members}]

\* a representative that is the plain clone of the result
dedup_entry_unmarked(result, members) == result

\* the representative of a group: if count > 1 it carries group_count and
\* group_screenshot_ids
dedup_entry(result, members) ==
    IF Len(members) > 1
    THEN [result EXCEPT !.group_count = {Len(members)},
                        !.group_screenshot_ids = {members}]
    ELSE result

deduplicate_results(results, threshold) ==
    IF results = <<>> \/ threshold = 0 THEN results
    ELSE LET groups == dedup_groups(results, threshold, 1, <<>>)
         IN  [g \in 1..Len(groups) |->
                 dedup_entry(results[groups[g].rep], groups[g].members)]

\* rows the SELECT of search_deduped returns, in rank order
matching_rows(filters) ==
    order_by_rank({id \in DOMAIN screenshots : filter_match(id, filters)})

search_deduped(filters, dedup_threshold) ==
    IF fts5_syntax_error(filters.query)
    THEN [ok |-> FALSE, results |-> <<>>, total_count |-> 0]
    ELSE
      LET matched == matching_rows(filters)
          overfetch_limit == IF dedup_threshold > 0
                             THEN Min(filters.limit * OverfetchFactor, OverfetchCap)
                             ELSE filters.limit
          overfetch_offset == IF dedup_threshold > 0 THEN 0 ELSE filters.offset
          fetched == page(matched, overfetch_limit, overfetch_offset)
          results == [i \in 1..Len(fetched) |-> SearchResult(fetched[i])]
          deduped == deduplicate_results(results, dedup_threshold)
      IN  IF dedup_threshold > 0
          THEN [ok |-> TRUE,
                results |-> page(deduped, filters.limit, filters.offset),
                total_count |-> Len(deduped)]
          ELSE [ok |-> TRUE, results |-> results, total_count |-> Len(matched)]

search(filters) == search_deduped(filters, DEDUP_THRESHOLD)

(***************************************************************************)
(* The search client: it holds the connection, inserts rows, and calls      *)
(* search and deduplicate_results.  dbArg holds the open call.              *)
(***************************************************************************)
\* tokens of the texts and queries of the model
TokC == <<Lc("c")>>
TokD == <<Lc("d")>>

\* a perceptual hash within DEDUP_THRESHOLD of HashA and of HashFar, and one
\* far from every other
HashNear == 1..3
HashFar2 == 9..16
SearchHashes == {HashA, HashNear, HashFar, HashFar2}

NoFilters ==
    [query |-> <<TokC>>, start_time |-> {}, end_time |-> {}, app_name |-> {},
     limit |-> 1, offset |-> 0]

searchUnchanged ==
    UNCHANGED <<is_capturing, window, screen, capVars, chanVars, hashVars,
                ocrVars, tailVars, frames_ocr_pending, shutPc, ipcVars, tx,
                portalVars, startVars, privVars, delVars>>

\* insert_screenshot of a row with one of the given hashes, times (s) and
\* windows, while fewer than rows rows were inserted
SearchInsertScreenshot(hashes, times, windows, rows) ==
    /\ dbPc = "idle"
    /\ next_id <= rows
    /\ \E h \in hashes, t \in times, w \in windows :
          screenshots' = screenshots @@
              (next_id :> NewScreenshot(
                  [timestamp |-> t * MsPerSec, hash |-> h, window |-> w]))
    /\ next_id' = next_id + 1
    /\ UNCHANGED <<ocr_text_content, ocr_fts, ocr_bounding_boxes, ocr_embeddings,
                   files, dbPc, dbArg, searchVars, portalVars, startVars, privVars, delVars>>
    /\ searchUnchanged

\* insert_ocr_text(id, text, _) that returns Ok: both rows are committed
SearchInsertOcrText(texts) ==
    /\ dbPc = "idle"
    /\ \E id \in DOMAIN screenshots, text \in texts :
          /\ id \notin ocr_text_content
          /\ ocr_text_content' = ocr_text_content \cup {id}
          /\ ocr_fts' = ocr_fts \cup {id}
          /\ ocr_text' = (id :> text) @@ ocr_text
    /\ UNCHANGED <<screenshots, next_id, ocr_bounding_boxes, ocr_embeddings,
                   files, dbPc, dbArg>>
    /\ searchUnchanged

\* db.search(&filters): the call and its SearchResponse (or Err)
SearchCall(filters) ==
    /\ dbPc = "idle"
    /\ \E f \in filters :
          dbArg' = [filters |-> f, response |-> search(f)]
    /\ dbPc' = "searched"
    /\ UNCHANGED <<dbVars, searchVars, portalVars, startVars, privVars, delVars>>
    /\ searchUnchanged

\* deduplicate_results(results, threshold) on the rows matching NoFilters
DedupCall(thresholds) ==
    /\ dbPc = "idle"
    /\ \E threshold \in thresholds :
          LET rows == matching_rows(NoFilters)
              results == [i \in 1..Len(rows) |-> SearchResult(rows[i])]
          IN  dbArg' = [input |-> results, threshold |-> threshold,
                        output |-> deduplicate_results(results, threshold)]
    /\ dbPc' = "deduped"
    /\ UNCHANGED <<dbVars, searchVars, portalVars, startVars, privVars, delVars>>
    /\ searchUnchanged

\* deduplicate_results applied to the output of the call before
DedupAgain ==
    /\ dbPc = "deduped"
    /\ dbArg' = [input |-> dbArg.output, threshold |-> dbArg.threshold,
                 output |-> deduplicate_results(dbArg.output, dbArg.threshold)]
    /\ dbPc' = "deduped_again"
    /\ UNCHANGED <<dbVars, searchVars, portalVars, startVars, privVars, delVars>>
    /\ searchUnchanged

\* the caller takes the result
SearchReturn ==
    /\ dbPc \in {"searched", "deduped_again", "blocks", "got", "is_excluded",
                 "hybrid"}
    /\ dbPc' = "idle"
    /\ dbArg' = 0
    /\ UNCHANGED <<dbVars, searchVars, portalVars, startVars, privVars, delVars>>
    /\ searchUnchanged

\* page sizes and offsets of the paging client
PagingFilters ==
    {[NoFilters EXCEPT !.limit = l, !.offset = k * l] :
        l \in 1..MaxLimit, k \in 0..MaxSearchRows}

\* thresholds the dedup client passes: off, the default, a wider one
DedupThresholds == {0, DEDUP_THRESHOLD, 2 * DEDUP_THRESHOLD}

InitSearch ==
    /\ InitDaemon
    /\ config = DefaultConfig

NextPaging ==
    \/ SearchInsertScreenshot(SearchHashes, {100}, {NoWindow}, MaxSearchRows)
    \/ SearchInsertOcrText({<<TokC>>})
    \/ SearchCall(PagingFilters)
    \/ DedupCall(DedupThresholds)
    \/ DedupAgain
    \/ SearchReturn

SpecPaging == InitSearch /\ [][NextPaging]_vars

\* delete_screenshots_before(cut), with every way it can stop; the texts go
\* with their rows
SearchDelete(cuts) ==
    /\ dbPc = "idle"
    /\ \E cut \in cuts, stop \in {"none", "collect", "fts", "rows"} :
          LET w == delete_screenshots(MatchBefore(cut), stop) IN
          /\ MatchBefore(cut) # {}
          /\ ocr_fts' = w.fts
          /\ screenshots' = w.rows
          /\ ocr_text_content' = w.otc
          /\ ocr_bounding_boxes' = w.boxes
          /\ files' = w.files
          /\ ocr_text' = Restrict(ocr_text, w.fts \cup w.otc)
    /\ UNCHANGED <<next_id, ocr_embeddings, dbPc, dbArg>>
    /\ searchUnchanged

\* windows of the rows of the filter client: no app, and the app "ed"
FilterWindows == {w \in Windows : w.window_title \subseteq {<<Lc("a")>>}
                                   /\ w.window_class \subseteq {<<Lc("e"), Lc("d")>>}}

\* the filters of the filter client; the page covers every row
FilterFilters ==
    {[NoFilters EXCEPT !.start_time = s, !.end_time = e, !.app_name = a,
                       !.limit = MaxFilterRows] :
        s \in {{}, {200}}, e \in {{}, {200}},
        a \in {{}, {<<Lc("e"), Lc("d")>>}, {<<Lc("k"), Lc("p")>>}}}

NextFilter ==
    \/ SearchInsertScreenshot({HashA, HashFar}, {100, 200, 300}, FilterWindows,
                              MaxFilterRows)
    \/ SearchInsertOcrText({<<TokC>>, <<TokD>>})
    \/ SearchCall(FilterFilters)
    \/ SearchReturn

SpecFilter == InitSearch /\ [][NextFilter]_vars

\* texts the OCR of the full-text client yields; the last one shows the
\* word NOT in capitals
FtsTexts == {<<TokC>>, <<TokC, TokD>>, <<TokC, OpNot, TokD>>}

\* contiguous token sequences of a text
token_sequences(text) ==
    {SubSeq(text, i, j) : i \in 1..Len(text), j \in 1..Len(text)} \ {<<>>}

\* unfiltered searches for a token sequence of a text; the page covers
\* every row
FtsFilters ==
    {[NoFilters EXCEPT !.query = q, !.limit = MaxFtsRows] :
        q \in UNION {token_sequences(text) : text \in FtsTexts}}

NextFts ==
    \/ SearchInsertScreenshot({HashA, HashFar}, {100, 300}, {NoWindow}, MaxFtsRows)
    \/ SearchInsertOcrText(FtsTexts)
    \/ SearchCall(FtsFilters)
    \/ SearchReturn
    \/ SearchDelete(StorageCuts)

SpecFts == InitSearch /\ [][NextFts]_vars

(***************************************************************************)
(* Database::get_active_blocks.                                             *)
(***************************************************************************)
\* if ts - block_end > 60
BlockGapSecs == 60

\* SELECT timestamp ... WHERE timestamp >= ?1 AND timestamp < ?2
\* ORDER BY timestamp ASC, over the rows ids
RECURSIVE timestamps_asc(_)
timestamps_asc(ids) ==
    IF ids = {} THEN <<>>
    ELSE LET first == CHOOSE x \in ids : \A y \in ids :
                          \/ screenshots[x].timestamp < screenshots[y].timestamp
                          \/ /\ screenshots[x].timestamp = screenshots[y].timestamp
                             /\ x <= y
         IN  <<screenshots[first].timestamp>> \o timestamps_asc(ids \ {first})

ActiveBlock(block_start, block_end, capture_interval_secs) ==
    [start_time |-> block_start,
     end_time |-> block_end + capture_interval_secs,
     duration_secs |-> block_end - block_start + capture_interval_secs]

\* a gap test that also closes the block at exactly 60 s
gap_detected_at_60(ts, block_end) == ts - block_end >= BlockGapSecs

gap_detected(ts, block_end) == ts - block_end > BlockGapSecs

\* the loop over timestamps[1..], from position i on, and the final push
RECURSIVE walk_blocks(_, _, _, _, _, _)
walk_blocks(timestamps, i, block_start, block_end, blocks, capture_interval_secs) ==
    IF i > Len(timestamps)
    THEN Append(blocks, ActiveBlock(block_start, block_end, capture_interval_secs))
    ELSE IF gap_detected(timestamps[i], block_end)
         THEN walk_blocks(timestamps, i + 1, timestamps[i], timestamps[i],
                  Append(blocks,
                      ActiveBlock(block_start, block_end, capture_interval_secs)),
                  capture_interval_secs)
         ELSE walk_blocks(timestamps, i + 1, block_start, timestamps[i], blocks,
                  capture_interval_secs)

get_active_blocks(start, end, capture_interval_secs) ==
    LET timestamps == timestamps_asc(MatchRange(start, end)) IN
    IF timestamps = <<>> THEN <<>>
    ELSE walk_blocks(timestamps, 2, timestamps[1], timestamps[1], <<>>,
                     capture_interval_secs)

\* timestamps of the rows of the blocks client: 60 s, 61 s and 1 s apart
BlockTimes == {100, 160, 221, 222}
\* the ranges and capture intervals it asks for
BlockRanges == {<<0, 1000>>, <<160, 222>>}
BlockIntervals == {5, 10}

\* db.get_active_blocks(start_time, end_time, capture_interval)
BlocksCall ==
    /\ dbPc = "idle"
    /\ \E r \in BlockRanges, interval \in BlockIntervals :
          dbArg' = [start |-> r[1], end |-> r[2],
                    capture_interval_secs |-> interval,
                    blocks |-> get_active_blocks(r[1], r[2], interval)]
    /\ dbPc' = "blocks"
    /\ UNCHANGED <<dbVars, searchVars, portalVars, startVars, privVars, delVars>>
    /\ searchUnchanged

NextBlocks ==
    \/ SearchInsertScreenshot({HashA}, BlockTimes, {NoWindow}, MaxBlockRows)
    \/ BlocksCall
    \/ SearchReturn

SpecBlocks == InitSearch /\ [][NextBlocks]_vars

(***************************************************************************)
(* Database::get_screenshot, and a client that reads back what it inserted. *)
(***************************************************************************)
OcrStatuses == {"Pending", "Processing", "Done", "Failed"}

\* OcrStatus::as_str
as_str(status) ==
    CASE status = "Pending" -> "pending"
      [] status = "Processing" -> "processing"
      [] status = "Done" -> "done"
      [] status = "Failed" -> "failed"

\* OcrStatus::parse: any other string is Pending
parse(str) ==
    CASE str = "processing" -> "Processing"
      [] str = "done" -> "Done"
      [] str = "failed" -> "Failed"
      [] OTHER -> "Pending"

\* a row mapper that reads window_title and window_class from each other's
\* column
get_screenshot_columns_swapped(id) ==
    IF id \in DOMAIN screenshots
    THEN {[id |-> id,
           timestamp |-> screenshots[id].timestamp,
           timestamp_ms |-> screenshots[id].timestamp_ms,
           app_name |-> screenshots[id].window.app_name,
           window_title |-> screenshots[id].window.window_class,
           window_class |-> screenshots[id].window.window_title,
           perceptual_hash |-> screenshots[id].perceptual_hash,
           ocr_status |-> parse(screenshots[id].ocr_status)]}
    ELSE {}

\* get_screenshot(id): Ok(Some(Screenshot)) as a set of one, Ok(None) as {}
get_screenshot(id) ==
    IF id \in DOMAIN screenshots
    THEN {[id |-> id,
           timestamp |-> screenshots[id].timestamp,
           timestamp_ms |-> screenshots[id].timestamp_ms,
           app_name |-> screenshots[id].window.app_name,
           window_title |-> screenshots[id].window.window_title,
           window_class |-> screenshots[id].window.window_class,
           perceptual_hash |-> screenshots[id].perceptual_hash,
           ocr_status |-> parse(screenshots[id].ocr_status)]}
    ELSE {}

\* capture time (ms) and hash of the frames the round-trip client inserts
RoundTripTimes == {100999}
RoundTripHashes == {HashFar}

\* insert_screenshot(&new): the client keeps what it inserted and the id
RoundTripInsert ==
    /\ dbPc = "idle"
    /\ next_id <= MaxRoundTripRows
    /\ \E t \in RoundTripTimes, h \in RoundTripHashes, w \in FilterWindows :
          LET frame == [timestamp |-> t, hash |-> h, window |-> w] IN
          /\ screenshots' = screenshots @@ (next_id :> NewScreenshot(frame))
          /\ dbArg' = [new |-> [timestamp |-> t \div MsPerSec, timestamp_ms |-> t,
                                 app_name |-> w.app_name,
                                 window_title |-> w.window_title,
                                 window_class |-> w.window_class,
                                 perceptual_hash |-> h],
                        id |-> next_id, updated |-> FALSE, embedded |-> FALSE]
    /\ next_id' = next_id + 1
    /\ dbPc' = "inserted"
    /\ UNCHANGED <<ocr_text_content, ocr_fts, ocr_bounding_boxes, ocr_embeddings,
                   files, searchVars, portalVars, startVars, privVars, delVars>>
    /\ searchUnchanged

\* update_ocr_status(id, status) on any row, between the insert and the read
RoundTripUpdateOcrStatus ==
    /\ dbPc = "inserted"
    /\ \E id \in DOMAIN screenshots, status \in OcrStatuses :
          /\ screenshots' = update_ocr_status(screenshots, id, as_str(status))
          /\ dbArg' = [dbArg EXCEPT !.updated = @ \/ id = dbArg.id]
    /\ UNCHANGED <<next_id, ocr_text_content, ocr_fts, ocr_bounding_boxes,
                   ocr_embeddings, files, dbPc, searchVars, portalVars, startVars, privVars, delVars>>
    /\ searchUnchanged

\* insert_embedding(id, _) on any row, between the insert and the read
RoundTripInsertEmbedding ==
    /\ dbPc = "inserted"
    /\ \E id \in DOMAIN screenshots :
          \E stop \in EmbeddingStops(id) :
             LET w == insert_embedding(id, stop) IN
             /\ ocr_embeddings' = w.emb
             /\ screenshots' = w.rows
             /\ dbArg' = [dbArg EXCEPT !.embedded = @ \/ id = dbArg.id]
    /\ UNCHANGED <<next_id, ocr_text_content, ocr_fts, ocr_bounding_boxes, files,
                   dbPc, searchVars, portalVars, startVars, privVars, delVars>>
    /\ searchUnchanged

\* get_screenshot(id) of the id inserted, of another row, or of an id that
\* was never inserted
RoundTripGet ==
    /\ dbPc = "inserted"
    /\ \E id \in 1..(MaxRoundTripRows + 1) :
          dbArg' = [new |-> dbArg.new, id |-> dbArg.id, updated |-> dbArg.updated,
                    embedded |-> dbArg.embedded,
                    asked |-> id, got |-> get_screenshot(id)]
    /\ dbPc' = "got"
    /\ UNCHANGED <<dbVars, searchVars, portalVars, startVars, privVars, delVars>>
    /\ searchUnchanged

NextRoundTrip ==
    \/ RoundTripInsert
    \/ RoundTripUpdateOcrStatus
    \/ RoundTripInsertEmbedding
    \/ RoundTripGet
    \/ SearchReturn

SpecRoundTrip == InitSearch /\ [][NextRoundTrip]_vars

\* ids of a result list
result_ids(results) == {results[i].id : i \in 1..Len(results)}

\* C12: for the filter and page size of a search call, the pages at offsets
\* 0, L, 2L, ... together hold exactly the deduplicated result set of the
\* filter (scene dedup applied to every matching row), and no id is on two
\* pages.
C12_PagesCoverResultSet ==
    dbPc = "searched" =>
        LET f == dbArg.filters
            rows == matching_rows(f)
            full == deduplicate_results(
                        [i \in 1..Len(rows) |-> SearchResult(rows[i])],
                        DEDUP_THRESHOLD)
            pg(k) == search([f EXCEPT !.offset = k * f.limit]).results
        IN  /\ UNION {result_ids(pg(k)) : k \in 0..Len(rows)} = result_ids(full)
            /\ \A j, k \in 0..Len(rows) :
                  j # k => result_ids(pg(j)) \cap result_ids(pg(k)) = {}

\* C13: the total_count of a search response is the number of dedup groups
\* among all rows matching the filter, and every page of the same filter
\* reports the same total_count.
C13_TotalCountIsGroupCount ==
    dbPc = "searched" =>
        LET f == dbArg.filters
            rows == matching_rows(f)
            full == deduplicate_results(
                        [i \in 1..Len(rows) |-> SearchResult(rows[i])],
                        DEDUP_THRESHOLD)
        IN  /\ dbArg.response.total_count = Len(full)
            /\ \A g \in PagingFilters :
                  search(g).total_count = dbArg.response.total_count

\* perceptual hash of the row of a result
result_hash(result) == screenshots[result.id].perceptual_hash

\* positions of the results of a list whose row has hash h
with_hash(results, h) ==
    {i \in 1..Len(results) : result_hash(results[i]) = h}

\* the output entry at position o is the group of exactly the results at the
\* positions S of the input, represented by the top-ranked of them
is_group_of(input, S, output, o) ==
    /\ output[o].id = input[CHOOSE i \in S : \A j \in S : i <= j].id
    /\ output[o].group_count = {Cardinality(S)}
    /\ \E ids \in output[o].group_screenshot_ids :
          /\ Len(ids) = Cardinality(S)
          /\ {ids[k] : k \in 1..Len(ids)} = {input[i].id : i \in S}

\* C15 as stated: whenever N >= 2 results of the list given to scene dedup
\* share one perceptual hash, the output has a single representative of
\* them, the top-ranked of them, with group_count = N and
\* group_screenshot_ids exactly those N ids.
C15_SharedHashSingleRepresentative ==
    (dbPc = "deduped" /\ dbArg.threshold > 0) =>
        \A h \in SearchHashes :
            LET S == with_hash(dbArg.input, h) IN
            Cardinality(S) >= 2 =>
                \E o \in 1..Len(dbArg.output) :
                    is_group_of(dbArg.input, S, dbArg.output, o)

\* C15 amended: N >= 2 results sharing one perceptual hash always land in one
\* group; when no other result of the list has a hash within the threshold
\* of theirs, that group is represented by the top-ranked of them with
\* group_count = N and group_screenshot_ids exactly those N ids, and no
\* other output entry is one of them.
C15_SharedHashOneGroup ==
    (dbPc = "deduped" /\ dbArg.threshold > 0) =>
        \A h \in SearchHashes :
            LET S == with_hash(dbArg.input, h)
                alone == \A i \in (1..Len(dbArg.input)) \ S :
                            hamming_distance(result_hash(dbArg.input[i]), h)
                                > dbArg.threshold
            IN  Cardinality(S) >= 2 =>
                  /\ \E o \in 1..Len(dbArg.output) :
                        \E ids \in dbArg.output[o].group_screenshot_ids :
                            {dbArg.input[i].id : i \in S}
                                \subseteq {ids[k] : k \in 1..Len(ids)}
                  /\ alone =>
                        /\ \E o \in 1..Len(dbArg.output) :
                              is_group_of(dbArg.input, S, dbArg.output, o)
                        /\ Cardinality({o \in 1..Len(dbArg.output) :
                               dbArg.output[o].id \in
                                   {dbArg.input[i].id : i \in S}}) = 1

\* three results share a hash, a fourth result with a far hash ranks between
\* them, and dedup has returned two entries
C15_Witness ==
    /\ dbPc = "deduped"
    /\ dbArg.threshold = DEDUP_THRESHOLD
    /\ Len(dbArg.input) = 4
    /\ with_hash(dbArg.input, HashNear) = {1, 3, 4}
    /\ with_hash(dbArg.input, HashFar2) = {2}
    /\ Len(dbArg.output) = 2
    /\ dbArg.output[1].group_count = {3}

\* C16: scene dedup is idempotent: deduplicate_results applied to its own
\* output, with the same threshold, returns that output unchanged (same
\* representatives in the same order, same group_count and
\* group_screenshot_ids).
C16_DedupIdempotent ==
    dbPc = "deduped_again" => dbArg.output = dbArg.input

\* the second pass ran on a list that holds a group of two and a single
C16_Witness ==
    /\ dbPc = "deduped_again"
    /\ dbArg.threshold = DEDUP_THRESHOLD
    /\ \E i, j \in 1..Len(dbArg.input) :
          /\ dbArg.input[i].group_count = {2}
          /\ dbArg.input[j].group_count = {}

\* ids a response returns inside the groups of its results
group_ids(results) ==
    UNION {{ids[k] : k \in 1..Len(ids)} :
             ids \in UNION {results[i].group_screenshot_ids :
                               i \in 1..Len(results)}}

\* rows with OCR text that contain the query token and satisfy the three
\* filter components of f, an absent component restricting nothing
rows_satisfying(f) ==
    {id \in DOMAIN screenshots \cap ocr_fts :
        /\ token_in(f.query[1], ocr_text[id])
        /\ f.start_time # {} => \A t \in f.start_time : screenshots[id].timestamp >= t
        /\ f.end_time # {} => \A t \in f.end_time : screenshots[id].timestamp <= t
        /\ f.app_name # {} => screenshots[id].window.app_name = f.app_name}

C19_TokenSequenceFindsRow ==
    dbPc = "searched" =>
        \A id \in DOMAIN screenshots \cap DOMAIN ocr_text :
            dbArg.filters.query \in token_sequences(ocr_text[id]) =>
                /\ dbArg.response.ok
                /\ id \in result_ids(dbArg.response.results)
                          \cup group_ids(dbArg.response.results)

\* C17: delete_screenshots_in_range(start, end) deletes exactly the rows with
\* start <= timestamp < end and delete_screenshots_before(T) exactly those
\* with timestamp < T; the count is the number of rows deleted; no statement
\* of the call touches another screenshot row or a dependent of one; and the
\* call returns with no row left in its range.
C17_DeleteExactlyRange ==
    [][(dbPc \in {"del_fts", "del_rows", "del_files"}) =>
        LET c == dbArg.call
            hit == {id \in DOMAIN screenshots :
                      /\ screenshots[id].timestamp < c.end
                      /\ c.op = "range" => screenshots[id].timestamp >= c.start}
        IN  /\ \A id \in DOMAIN screenshots \ hit :
                  /\ id \in DOMAIN screenshots'
                  /\ screenshots'[id] = screenshots[id]
                  /\ (id \in ocr_fts') = (id \in ocr_fts)
                  /\ (id \in ocr_text_content') = (id \in ocr_text_content)
                  /\ (id \in ocr_bounding_boxes') = (id \in ocr_bounding_boxes)
                  /\ (id \in ocr_embeddings') = (id \in ocr_embeddings)
            /\ (dbPc = "del_rows" /\ dbPc' = "del_files") =>
                  /\ DOMAIN screenshots' = DOMAIN screenshots \ hit
                  /\ dbArg'.count = Cardinality(hit)
            /\ dbPc' = "deleted" => hit = {}
    ]_vars

\* a range delete returned 1: it took the row at its start and left the row
\* at its end, with its OCR text, in place
C17_Witness ==
    /\ dbPc = "deleted"
    /\ dbArg.call.op = "range"
    /\ dbArg.count = 1
    /\ \E id \in DOMAIN screenshots :
          /\ screenshots[id].timestamp = dbArg.call.end
          /\ id \in ocr_fts
          /\ id \in ocr_text_content
    /\ \E id \in dbArg.matched : id \notin DOMAIN screenshots

\* C18: the blocks get_active_blocks returns partition the timestamps in
\* [start, end): every timestamp lies in exactly one block, consecutive
\* timestamps inside a block are at most 60 s apart, the last timestamp of a
\* block and the first of the next are more than 60 s apart, and each block
\* has start_time = first, end_time = last + capture_interval_secs,
\* duration_secs = last - first + capture_interval_secs; no timestamp in
\* range gives no block.
C18_ActiveBlocksPartition ==
    dbPc = "blocks" =>
        LET B == dbArg.blocks
            pad == dbArg.capture_interval_secs
            T == {screenshots[id].timestamp : id \in
                    {x \in DOMAIN screenshots :
                        /\ screenshots[x].timestamp >= dbArg.start
                        /\ screenshots[x].timestamp < dbArg.end}}
            last(k) == B[k].end_time - pad
        IN  /\ (T = {}) = (B = <<>>)
            /\ \A k \in 1..Len(B) :
                  /\ B[k].start_time \in T
                  /\ last(k) \in T
                  /\ B[k].start_time <= last(k)
                  /\ B[k].duration_secs = last(k) - B[k].start_time + pad
                  /\ \A a, b \in T :
                        (/\ B[k].start_time <= a /\ a < b /\ b <= last(k)
                         /\ ~ \E c \in T : a < c /\ c < b) => b - a <= BlockGapSecs
            /\ \A k \in 1..(Len(B) - 1) :
                  /\ B[k + 1].start_time - last(k) > BlockGapSecs
                  /\ ~ \E c \in T : last(k) < c /\ c < B[k + 1].start_time
            /\ \A t \in T :
                  Cardinality({k \in 1..Len(B) :
                      B[k].start_time <= t /\ t <= last(k)}) = 1

\* three rows 60 s and 61 s apart gave two blocks, the first of two rows
C18_Witness ==
    /\ dbPc = "blocks"
    /\ Len(dbArg.blocks) = 2
    /\ dbArg.blocks[1].duration_secs = BlockGapSecs + dbArg.capture_interval_secs
    /\ dbArg.blocks[2].start_time - dbArg.blocks[1].start_time
          = 2 * BlockGapSecs + 1
    /\ dbArg.blocks[2].duration_secs = dbArg.capture_interval_secs

ExcludedNames ==
    { <<Lc("a")>>, <<Uc("a")>>, <<Lc("a"), Lc("b")>>, <<Uc("a"), Lc("b")>> }
ExcludedTitles ==
    { <<Lc("a")>>, <<Lc("b"), Lc("a")>>, <<Lc("b"), Uc("a"), Lc("b")>>, <<Lc("b")>> }
ExcludedPatterns ==
    { <<>>, <<Lc("a")>>, <<Uc("a"), Lc("b")>>, <<Uc("a"), Uc("b")>> }

\* Option<String> over a set of strings
OptionOf(strings) == {{}} \cup {{str} : str \in strings}

\* lists of at most n entries
ListsOf(entries, n) == UNION {[1..k -> entries] : k \in 0..n}

\* is_excluded(&info, &excluded_apps, &excluded_title_patterns)
IsExcludedCall ==
    /\ dbPc = "idle"
    /\ \E app \in OptionOf(ExcludedNames), title \in OptionOf(ExcludedTitles),
          class \in OptionOf(ExcludedNames),
          apps \in ListsOf(ExcludedNames, MaxExcluded),
          patterns \in ListsOf(ExcludedPatterns, MaxExcluded) :
          LET info == [app_name |-> app, window_title |-> title,
                       window_class |-> class]
          IN  dbArg' = [info |-> info, excluded_apps |-> apps,
                        excluded_title_patterns |-> patterns,
                        excluded |-> is_excluded(info, apps, patterns)]
    /\ dbPc' = "is_excluded"
    /\ UNCHANGED <<dbVars, searchVars, portalVars, startVars, privVars, delVars>>
    /\ searchUnchanged

NextExcluded ==
    \/ IsExcludedCall
    \/ SearchReturn

SpecExcluded == InitSearch /\ [][NextExcluded]_vars

\* two strings are equal ignoring case
same_ignoring_case(s, t) ==
    /\ Len(s) = Len(t)
    /\ \A i \in 1..Len(s) : s[i][1] = t[i][1]

\* s contains p ignoring case
contains_ignoring_case(s, p) ==
    \E k \in 0..(Len(s) - Len(p)) :
        \A i \in 1..Len(p) : s[k + i][1] = p[i][1]

\* C21: is_excluded is true exactly when app_name or window_class equals
\* some entry of excluded_apps ignoring case, or window_title contains some
\* entry of excluded_title_patterns ignoring case; a window with no
\* app_name, class or title is never excluded.
C21_IsExcludedExactly ==
    dbPc = "is_excluded" =>
        LET info == dbArg.info
            apps == dbArg.excluded_apps
            patterns == dbArg.excluded_title_patterns
        IN  /\ dbArg.excluded =
                  \/ \E i \in 1..Len(apps) :
                        \E name \in info.app_name \cup info.window_class :
                            same_ignoring_case(name, apps[i])
                  \/ \E j \in 1..Len(patterns) :
                        \E title \in info.window_title :
                            contains_ignoring_case(title, patterns[j])
            /\ info = NoWindow => ~dbArg.excluded

\* a window excluded by its class alone, which differs from the entry in
\* case, and whose app_name is another app
C21_Witness ==
    /\ dbPc = "is_excluded"
    /\ dbArg.excluded
    /\ dbArg.excluded_title_patterns = <<>>
    /\ dbArg.info.app_name = {<<Lc("a")>>}
    /\ dbArg.info.window_class = {<<Uc("a"), Lc("b")>>}
    /\ dbArg.excluded_apps = << <<Lc("a"), Lc("b")>> >>

(***************************************************************************)
(* The five stages while the UI calls DeleteRange.                          *)
(***************************************************************************)
NextRace ==
    \/ CaptureRun({29001}, MaxRaceTicks)
    \/ HashTask
    \/ OcrStage
    \/ OcrTask
    \/ IndexTask
    \/ EmbedTask
    \/ DeleteRange

SpecRace == InitPipeline /\ [][NextRace]_vars

\* C22: whenever the index stage holds an OcrResult it received, a
\* screenshot row with the result's screenshot id exists.
C22_IndexSeesExistingRow ==
    indexPc = "write" => indexResult \in DOMAIN screenshots


\* the frames between insert_screenshot and the end of run_tesseract (or the
\* drain loop): held by the hash stage before its send, queued in the
\* processed channel, held by the OCR stage, or in a task that has not yet
\* returned from run_tesseract
ocr_not_completed ==
    (IF hashPc = "send" THEN 1 ELSE 0)
    + Len(processed)
    + (IF ocrPc = "acquire" THEN 1 ELSE 0)
    + Cardinality({t \in ocrTasks : t.pc \in {"mark", "tesseract"}})

pipeline_idle ==
    /\ raw = <<>> /\ processed = <<>>
    /\ hashPc \in {"recv", "finished"}
    /\ ocrPc \in {"recv", "finished"}
    /\ ocrTasks = {}

\* C23: frames_ocr_pending is never negative and always equals the number of
\* inserted screenshots whose OCR has not completed; it goes up by one exactly
\* in the steps that insert a screenshot row, and it is 0 when the pipeline
\* is idle.
C23_OcrPendingCounts ==
    /\ [](/\ frames_ocr_pending >= 0
          /\ frames_ocr_pending = ocr_not_completed
          /\ (pipeline_idle => frames_ocr_pending = 0))
    /\ [][(next_id' # next_id) <=> (frames_ocr_pending' = frames_ocr_pending + 1)]_vars

C23_Witness ==
    /\ next_id = 3
    /\ pipeline_idle
    /\ frames_ocr_pending = 0


(***************************************************************************)
(* The OCR worker pool: more frames than permits.                           *)
(***************************************************************************)
NextWorkers ==
    \/ CaptureRun({29001}, MaxWorkerTicks)
    \/ HashTask
    \/ OcrRecv
    \/ OcrSpawn
    \/ OcrTask
    \/ IndexRecv
    \/ IndexWrite

SpecWorkers == InitSearch /\ [][NextWorkers]_vars

\* C24: at most max_workers OCR tasks are in progress at any time, a task is
\* in the pool from before it marks its screenshot as processing until it has
\* finished, and no task is started while max_workers tasks are in progress.
C24_WorkersBounded ==
    /\ [](Cardinality(ocrTasks) <= max_workers)
    /\ [][/\ (Cardinality(ocrTasks') > Cardinality(ocrTasks)
               => Cardinality(ocrTasks) < max_workers)
          /\ \A t \in ocrTasks' \ ocrTasks :
                (\E u \in ocrTasks : u.screenshot_id = t.screenshot_id)
                \/ t.pc = "mark"]_vars

C24_Witness ==
    /\ ocrPc = "acquire"
    /\ Cardinality(ocrTasks) = max_workers


(***************************************************************************)
(* Backpressure.  The runs start either from the state start_pipeline       *)
(* leaves, or from the state after ChannelCap frames were captured and      *)
(* stored while the OCR stage (here the drain loop of a disabled OCR) had   *)
(* not yet been scheduled: the processed channel is full.                   *)
(***************************************************************************)
\* capture interval of the frames stored before the run starts
StoredDeltaMs == 31000

StoredFrame(i) == [timestamp |-> i * StoredDeltaMs, hash |-> HashA, window |-> NoWindow]

InitProcessedFull ==
    /\ is_capturing = TRUE
    /\ window = NoWindow
    /\ screen = HashA
    /\ now = ChannelCap * StoredDeltaMs
    /\ ticks = 0
    /\ capPc = "loop_head"
    /\ capFrame = NoFrame
    /\ raw = <<>>
    /\ processed = [i \in 1..ChannelCap |-> ProcessedFrame(i, i * StoredDeltaMs)]
    /\ ocrq = <<>>
    /\ embedq = <<>>
    /\ hashPc = "recv"
    /\ hashFrame = NoFrame
    /\ hashQuery = NoQuery
    /\ ocrPc = "recv"
    /\ ocrFrame = NoFrame
    /\ ocrTasks = {}
    /\ indexPc = "recv"
    /\ indexResult = 0
    /\ embedPc = "recv"
    /\ embedReq = 0
    /\ frames_captured = ChannelCap
    /\ frames_deduplicated = 0
    /\ frames_ocr_pending = ChannelCap
    /\ frames_indexed = 0
    /\ screenshots = [i \in 1..ChannelCap |-> NewScreenshot(StoredFrame(i))]
    /\ next_id = ChannelCap + 1
    /\ ocr_text_content = {}
    /\ ocr_fts = {}
    /\ ocr_bounding_boxes = {}
    /\ ocr_embeddings = {}
    /\ files = UNION {{screenshot_path(i * StoredDeltaMs),
                       thumbnail_path(i * StoredDeltaMs)} : i \in 1..ChannelCap}
    /\ shutPc = "running"
    /\ last_call = [method |-> "none", result |-> "none"]
    /\ last_ok = <<"none", "none">>
    /\ deletes = 0
    /\ InitIdleClient
    /\ tx = NoTx
    /\ InitPortal
    /\ InitStarted
    /\ pixels_window = NoWindow
    /\ emitted_under = {}
    /\ callbacks = <<>>
    /\ deleted_ranges = {}
    /\ ocr_text = <<>>
    /\ excluded_dropped = {}
    /\ config \in {c \in Configs : ~c.ocr_enabled}

NextBackpressure ==
    \/ CaptureRun({29001}, MaxBackpressureTicks)
    \/ HashTask
    \/ OcrStage
    \/ OcrTask
    \/ IndexTask
    \/ EmbedTask

SpecBackpressure == (InitPipeline \/ InitProcessedFull) /\ [][NextBackpressure]_vars

\* C25: no channel ever holds more than ChannelCap items; a producer at its
\* send with a full output channel stays there with its item; and a producer
\* that leaves its send while the receiver lives has put its item at the end
\* of the channel.
C25_BoundedChannelsBlock ==
    /\ [](/\ Len(raw) <= ChannelCap
          /\ Len(processed) <= ChannelCap
          /\ Len(ocrq) <= ChannelCap
          /\ Len(embedq) <= ChannelCap)
    /\ [][/\ (capPc = "send" /\ Len(raw) = ChannelCap /\ ~raw_rx_dropped)
               => (capPc' = "send" /\ capFrame' = capFrame)
          /\ (hashPc = "send" /\ Len(processed) = ChannelCap /\ ~processed_rx_dropped)
               => (hashPc' = "send" /\ hashFrame' = hashFrame)
          /\ (capPc = "send" /\ capPc' # "send" /\ ~raw_rx_dropped)
               => raw' = Append(raw, capFrame)
          /\ (hashPc = "send" /\ hashPc' # "send" /\ ~processed_rx_dropped)
               => processed' = Append(processed, hashFrame)
          /\ \A t \in ocrTasks :
                (t.pc = "send" /\ t \notin ocrTasks' /\ ~ocr_rx_dropped)
                => ocrq' = Append(ocrq, t.screenshot_id)
          /\ (indexPc = "send" /\ indexPc' # "send" /\ ~embed_rx_dropped)
               => embedq' = Append(embedq, indexResult)]_vars

\* the hash stage waited at a full channel, the consumer took an item, and
\* the frame inserted meanwhile is now the last item of the full channel
C25_Witness ==
    /\ Len(processed) = ChannelCap
    /\ processed[ChannelCap].screenshot_id = ChannelCap + 1


\* the three writes of the index stage for a screenshot, in the given tables
indexed_in(id, rows, otc, fts, boxes) ==
    /\ id \in otc
    /\ id \in fts
    /\ id \in boxes
    /\ id \in DOMAIN rows
    /\ rows[id].ocr_status = "done"

indexed(id) ==
    indexed_in(id, screenshots, ocr_text_content, ocr_fts, ocr_bounding_boxes)

\* C26: frames_indexed counts the screenshots whose OCR text with its FTS
\* row, bounding boxes and status done are all written, and counts each by
\* one step of one; an EmbedRequest is held or queued only for such a
\* screenshot; an index write that leaves one of them unwritten neither
\* counts nor forwards; and with semantic search disabled no EmbedRequest
\* exists.
C26_IndexThenForward ==
    /\ [](/\ frames_indexed = Cardinality({id \in DOMAIN screenshots : indexed(id)})
          /\ (indexPc = "send" => indexed(indexResult))
          /\ \A i \in DOMAIN embedq : indexed(embedq[i])
          /\ (~config.semantic_enabled => (embedq = <<>> /\ indexPc # "send")))
    /\ [][/\ frames_indexed' \in {frames_indexed, frames_indexed + 1}
          /\ (indexPc = "write" /\ indexPc' # "write")
               => IF indexed_in(indexResult, screenshots', ocr_text_content',
                                ocr_fts', ocr_bounding_boxes')
                  THEN /\ frames_indexed' = frames_indexed + 1
                       /\ config.semantic_enabled => indexPc' = "send"
                  ELSE /\ frames_indexed' = frames_indexed
                       /\ indexPc' = "recv"
          /\ (indexPc = "send" /\ indexPc' # "send" /\ ~embed_rx_dropped)
               => embedq' = Append(embedq, indexResult)]_vars

\* an EmbedRequest was forwarded, and another result failed at a write
C26_Witness ==
    /\ embedq # <<>>
    /\ frames_indexed = 1
    /\ \E id \in DOMAIN screenshots : id \in ocr_text_content /\ ~indexed(id)


\* C27: in every step of the storage client, the ocr_fts rows that
\* disappear belong to screenshots that still exist before the step, a
\* screenshot row that disappears has no ocr_fts row before the step, and
\* none after it.
C27_FtsBeforeRows ==
    [][/\ (ocr_fts \ ocr_fts') \subseteq DOMAIN screenshots
       /\ \A id \in DOMAIN screenshots \ DOMAIN screenshots' :
             id \notin ocr_fts /\ id \notin ocr_fts']_vars

\* between the two statements of a delete: the FTS row of a matched
\* screenshot with OCR text is gone while its screenshot row still exists;
\* and after both: the row is gone as well
C27_Witness ==
    /\ dbPc = "del_files"
    /\ dbArg.count > 0
    /\ \E id \in dbArg.matched : id \notin DOMAIN screenshots /\ id \notin ocr_fts
    /\ \E id \in DOMAIN screenshots : id \in ocr_fts


(***************************************************************************)
(* The five stages with every per-frame failure, without Pause and without  *)
(* shutdown.                                                                *)
(***************************************************************************)
SpecStages == InitPipeline /\ [][NextBackpressure]_vars

\* a step takes the head of the queue, appends one item, or leaves it alone
queue_step(q, r) ==
    \/ r = q
    \/ q # <<>> /\ r = Tail(q)
    \/ Len(r) = Len(q) + 1 /\ SubSeq(r, 1, Len(q)) = q

\* C28: while nothing pauses or shuts the pipeline down, no stage ends,
\* whatever fails for a frame; and a step, failing or not, takes at most the
\* one item at the head of a channel, so a failure loses no item but its own.
C28_FailureDropsOneFrame ==
    /\ [](/\ capPc \notin {"finished", "aborted"}
          /\ hashPc # "finished"
          /\ ocrPc # "finished"
          /\ indexPc # "finished"
          /\ embedPc # "finished")
    /\ [][/\ queue_step(raw, raw')
          /\ queue_step(processed, processed')
          /\ queue_step(ocrq, ocrq')
          /\ queue_step(embedq, embedq')
          /\ (hashPc # "recv" /\ hashPc' = "recv") => raw' = raw
          /\ (indexPc # "recv" /\ indexPc' = "recv") => ocrq' = ocrq
          /\ (embedPc # "recv" /\ embedPc' = "recv") => embedq' = embedq]_vars

\* the first captured frame was lost in the hash stage; the second one was
\* stored, recognised and indexed
C28_Witness ==
    /\ frames_captured = 2
    /\ 1 \in DOMAIN screenshots
    /\ screenshots[1].timestamp_ms = 2 * 29001
    /\ indexed(1)


(***************************************************************************)
(* The background embedding backfill of run_daemon, next to the pipeline.   *)
(* dbPc is the position of the backfill task, dbArg its pending list.       *)
(***************************************************************************)
\* db.get_pending_embeddings(50)
BackfillBatch == 50

RECURSIVE ids_asc(_)
ids_asc(ids) ==
    IF ids = {} THEN <<>>
    ELSE LET first == CHOOSE x \in ids : \A y \in ids : x <= y
         IN  <<first>> \o ids_asc(ids \ {first})

\* SELECT s.id ... JOIN ocr_text_content ... WHERE ocr_status = 'done' AND
\* embedding_status = 'pending' ORDER BY s.id LIMIT ?1
get_pending_embeddings(limit) ==
    LET all == ids_asc({id \in DOMAIN screenshots :
                          /\ id \in ocr_text_content
                          /\ screenshots[id].ocr_status = "done"
                          /\ screenshots[id].embedding_status = "pending"})
    IN  SubSeq(all, 1, Min(limit, Len(all)))

\* the backfill task between two batches
NoPending == [pending |-> <<>>]

backfillUnchanged ==
    UNCHANGED <<is_capturing, window, screen, capVars, chanVars, hashVars,
                ocrVars, tailVars, frames_ocr_pending, shutPc, ipcVars, tx,
                searchVars, portalVars, startVars,
                privVars, delVars, next_id, ocr_text_content, ocr_fts,
                ocr_bounding_boxes, files>>

\* loop { let pending = match db.get_pending_embeddings(50) { Err => break };
\*        if pending.is_empty() { break } ...
BackfillQuery ==
    /\ dbPc = "idle"
    /\ \/ /\ get_pending_embeddings(BackfillBatch) # <<>>
          /\ dbPc' = "bf_embed"
          /\ dbArg' = [pending |-> get_pending_embeddings(BackfillBatch)]
       \/ /\ dbPc' = "bf_done"
          /\ dbArg' = NoPending
    /\ UNCHANGED <<screenshots, ocr_embeddings>>
    /\ backfillUnchanged

\* backfill_client.embed(&text): Ok(Some(v)); Ok(None) returns; Err goes on
BackfillEmbed ==
    /\ dbPc = "bf_embed"
    /\ \/ dbPc' = "bf_insert" /\ UNCHANGED dbArg
       \/ dbPc' = "bf_done" /\ dbArg' = NoPending
       \/ dbPc' = "bf_sleep" /\ UNCHANGED dbArg
    /\ UNCHANGED <<screenshots, ocr_embeddings>>
    /\ backfillUnchanged

\* db.insert_embedding(screenshot_id, &embedding) under the mutex
BackfillInsert ==
    /\ dbPc = "bf_insert"
    /\ \E stop \in EmbeddingStops(Head(dbArg.pending)) :
          LET w == insert_embedding(Head(dbArg.pending), stop) IN
          /\ ocr_embeddings' = w.emb
          /\ screenshots' = w.rows
    /\ dbPc' = "bf_sleep"
    /\ UNCHANGED dbArg
    /\ backfillUnchanged

\* sleep(50 ms), then the next pair of the batch or the next query
BackfillSleep ==
    /\ dbPc = "bf_sleep"
    /\ IF Len(dbArg.pending) > 1
       THEN /\ dbPc' = "bf_embed"
            /\ dbArg' = [pending |-> Tail(dbArg.pending)]
       ELSE /\ dbPc' = "idle"
            /\ dbArg' = NoPending
    /\ UNCHANGED <<screenshots, ocr_embeddings>>
    /\ backfillUnchanged

Backfill == BackfillQuery \/ BackfillEmbed \/ BackfillInsert \/ BackfillSleep

NextBackfill ==
    \/ CaptureRun({29001}, MaxBackfillTicks)
    \/ HashTask
    \/ OcrRecv
    \/ OcrSpawn
    \/ OcrTask
    \/ IndexTask
    \/ EmbedTask
    \/ Backfill

InitBackfill ==
    /\ InitPipelineStarted
    /\ InitStarted
    /\ dbPc = "idle"
    /\ dbArg = NoPending
    /\ config = [ocr_enabled |-> TRUE, semantic_enabled |-> TRUE]

SpecBackfill == InitBackfill /\ [][NextBackfill]_vars

\* C29: a screenshot's embedding_status is done exactly when a row of
\* ocr_embeddings carries its id.
C29_StatusDoneIffEmbedded ==
    \A id \in DOMAIN screenshots :
        (screenshots[id].embedding_status = "done") <=> (id \in ocr_embeddings)


\* the row with the given id was inserted for the frame captured at
\* timestamp_ms, and both of its files are written
stored(id, timestamp_ms) ==
    /\ id \in DOMAIN screenshots
    /\ screenshots[id].timestamp_ms = timestamp_ms
    /\ screenshot_path(timestamp_ms) \in files
    /\ thumbnail_path(timestamp_ms) \in files

\* C30: a ProcessedFrame, held for sending or sent, carries the id of the
\* row inserted for its frame, and both files of that frame are written;
\* every row has both files; a failed file write inserts no row; a failed
\* insert emits nothing and leaves frames_ocr_pending alone.
C30_EmitAfterStore ==
    /\ [](/\ (hashPc = "send" => stored(hashFrame.screenshot_id, hashFrame.timestamp))
          /\ \A i \in DOMAIN processed :
                stored(processed[i].screenshot_id, processed[i].timestamp)
          /\ \A id \in DOMAIN screenshots : stored(id, screenshots[id].timestamp_ms))
    /\ [][/\ (hashPc = "save" /\ hashPc' # "save")
               => IF {screenshot_path(hashFrame.timestamp),
                      thumbnail_path(hashFrame.timestamp)} \subseteq files'
                  THEN hashPc' = "insert" /\ screenshots' = screenshots
                  ELSE hashPc' = "recv" /\ screenshots' = screenshots
          /\ (hashPc = "insert" /\ hashPc' # "insert")
               => IF next_id' = next_id
                  THEN /\ hashPc' = "recv"
                       /\ screenshots' = screenshots
                       /\ processed' = processed
                       /\ frames_ocr_pending' = frames_ocr_pending
                  ELSE /\ hashPc' = "send"
                       /\ hashFrame'.screenshot_id = next_id
                       /\ frames_ocr_pending' = frames_ocr_pending + 1
          /\ (Len(processed') > Len(processed))
               => (hashPc = "send" /\ processed' = Append(processed, hashFrame))]_vars

\* a frame whose thumbnail could not be written left its image behind and
\* got no row; the other frame was stored and emitted
C30_Witness ==
    /\ processed # <<>>
    /\ \E f \in files :
          /\ f[1] = "full"
          /\ thumbnail_path(f[2]) \notin files
          /\ \A id \in DOMAIN screenshots : screenshots[id].timestamp_ms # f[2]


\* ids of the group an output entry stands for
members_of(entry) ==
    IF entry.group_screenshot_ids = {} THEN {entry.id}
    ELSE UNION {{ids[k] : k \in 1..Len(ids)} : ids \in entry.group_screenshot_ids}

\* rank of an id in a result list
position_of(results, id) == CHOOSE i \in 1..Len(results) : results[i].id = id

\* C31: the output of deduplicate_results is the greedy partition of its
\* input: every input id is in exactly one group; the group of a result is
\* the first group, among those whose representative ranks no lower than
\* the result, with the representative within the threshold; a
\* representative is the best-ranked member of its group; representatives
\* keep the input's rank order; two representatives are more than the
\* threshold apart.
C31_GreedyPartition ==
    (dbPc = "deduped" /\ dbArg.threshold > 0) =>
        LET input == dbArg.input
            output == dbArg.output
            G == 1..Len(output)
            rep_pos(g) == position_of(input, output[g].id)
            dist(g, i) == hamming_distance(result_hash(output[g]),
                                           result_hash(input[i]))
            open(i) == {g \in G : rep_pos(g) <= i /\ dist(g, i) <= dbArg.threshold}
        IN  /\ \A g \in G : members_of(output[g]) \subseteq result_ids(input)
            /\ \A i \in 1..Len(input) :
                  /\ Cardinality({g \in G : input[i].id \in members_of(output[g])}) = 1
                  /\ \A g \in G :
                        input[i].id \in members_of(output[g])
                        => (g \in open(i) /\ \A h \in open(i) : g <= h)
            /\ \A g \in G : \A m \in members_of(output[g]) :
                  rep_pos(g) <= position_of(input, m)
            /\ \A g, h \in G : g < h => rep_pos(g) < rep_pos(h)
            /\ \A g, h \in G :
                  g # h => hamming_distance(result_hash(output[g]),
                                            result_hash(output[h])) > dbArg.threshold

\* a result within the threshold of two representatives joined the first
C31_Witness ==
    /\ dbPc = "deduped"
    /\ dbArg.threshold = DEDUP_THRESHOLD
    /\ Len(dbArg.input) = 3
    /\ result_hash(dbArg.input[1]) = HashA
    /\ result_hash(dbArg.input[2]) = HashFar
    /\ result_hash(dbArg.input[3]) = HashNear
    /\ Len(dbArg.output) = 2
    /\ dbArg.output[1].group_count = {2}


(***************************************************************************)
(* Hybrid search: vector_search and hybrid_search.  The embeddings are not  *)
(* modelled, so the k-NN list is any order of the rows of ocr_embeddings.   *)
(* A score is a fraction <<numerator, denominator>>.                        *)
(***************************************************************************)
\* const RRF_K: f64 = 60.0; const FUSION_LIMIT: i64 = 300
RRF_K == 60
FUSION_LIMIT == 300

\* the orders of a finite set
orders_of(S) ==
    {q \in [1..Cardinality(S) -> S] : \A i, j \in 1..Cardinality(S) : q[i] = q[j] => i = j}

\* SELECT screenshot_id, distance FROM ocr_embeddings WHERE embedding MATCH ?1
\* ORDER BY distance LIMIT ?2: every possible answer, as a list of ids
vector_search(limit) ==
    {page(q, limit, 0) : q \in orders_of(ocr_embeddings)}

position_in(list, id) ==
    IF \E i \in 1..Len(list) : list[i] = id
    THEN CHOOSE i \in 1..Len(list) : list[i] = id
    ELSE 0

\* variant of the fusion that takes the score from the FTS list alone when
\* the id is in it
rrf_score_fts_first(fts_ids, vec_ids, id) ==
    LET a == position_in(fts_ids, id)
        b == position_in(vec_ids, id)
    IN  IF a # 0 THEN <<1, RRF_K + a>> ELSE <<1, RRF_K + b>>

\* scores.entry(id) += 1.0 / (RRF_K + rank + 1.0) over both lists; the
\* positions are rank + 1
rrf_score(fts_ids, vec_ids, id) ==
    LET a == position_in(fts_ids, id)
        b == position_in(vec_ids, id)
    IN  IF a = 0 THEN <<1, RRF_K + b>>
        ELSE IF b = 0 THEN <<1, RRF_K + a>>
        ELSE <<(RRF_K + a) + (RRF_K + b), (RRF_K + a) * (RRF_K + b)>>

score_less(x, y) == x[1] * y[2] < y[1] * x[2]

\* ranked.sort_by(b.1.partial_cmp(a.1)) over the entries of a HashMap: every
\* order of the scored ids in which no score is followed by a greater one
rrf_ranked(fts_ids, vec_ids) ==
    LET ids == {fts_ids[i] : i \in 1..Len(fts_ids)}
                 \cup {vec_ids[i] : i \in 1..Len(vec_ids)}
    IN  {q \in orders_of(ids) :
            \A i, j \in 1..Len(q) :
                i < j => ~score_less(rrf_score(fts_ids, vec_ids, q[i]),
                                     rrf_score(fts_ids, vec_ids, q[j]))}

\* the FTS result of an id, or the result built from get_screenshot(id); an
\* id without a screenshot row is left out
hydrate(ranked, fts_ids) ==
    LET found(id) == position_in(fts_ids, id) # 0 \/ id \in DOMAIN screenshots
        kept == SelectSeq(ranked, found)
    IN  [i \in 1..Len(kept) |-> SearchResult(kept[i])]

\* hybrid_search(filters, query_embedding) for one answer of vector_search
\* and one order of the sort; with_vector is query_embedding.is_some()
hybrid_search(filters, with_vector, vec_ids, ranked) ==
    LET fts_results == search_deduped([filters EXCEPT !.limit = FUSION_LIMIT,
                                                       !.offset = 0], 0)
        fts_ids == [i \in 1..Len(fts_results.results) |-> fts_results.results[i].id]
        all_results == IF with_vector THEN hydrate(ranked, fts_ids)
                       ELSE fts_results.results
        deduped == deduplicate_results(all_results, DEDUP_THRESHOLD)
    IN  IF ~fts_results.ok
        THEN [ok |-> FALSE, results |-> <<>>, total_count |-> 0, search_mode |-> {}]
        ELSE [ok |-> TRUE,
              results |-> page(deduped, filters.limit, filters.offset),
              total_count |-> Len(deduped),
              search_mode |-> IF with_vector THEN {"hybrid"} ELSE {"keyword"}]

\* insert_embedding(id, v) that returns Ok, for a row with OCR text
HybridInsertEmbedding ==
    /\ dbPc = "idle"
    /\ \E id \in DOMAIN screenshots \cap ocr_text_content :
          /\ id \notin ocr_embeddings
          /\ ocr_embeddings' = insert_embedding(id, "none").emb
          /\ screenshots' = insert_embedding(id, "none").rows
    /\ UNCHANGED <<next_id, ocr_text_content, ocr_fts, ocr_bounding_boxes, files,
                   dbPc, dbArg, searchVars, portalVars, startVars, privVars, delVars>>
    /\ searchUnchanged

\* db.hybrid_search(&filters, query_embedding): the call, the two lists it
\* fused, the fused list before dedup, and its SearchResponse
HybridCall(filters) ==
    /\ dbPc = "idle"
    /\ \E f \in filters, with_vector \in BOOLEAN :
          LET fts == search_deduped([f EXCEPT !.limit = FUSION_LIMIT, !.offset = 0], 0)
              fts_ids == [i \in 1..Len(fts.results) |-> fts.results[i].id]
          IN  \E vec_ids \in (IF with_vector THEN vector_search(FUSION_LIMIT)
                                ELSE {<<>>}) :
                \E ranked \in (IF with_vector THEN rrf_ranked(fts_ids, vec_ids)
                                ELSE {<<>>}) :
                   dbArg' = [filters |-> f, with_vector |-> with_vector,
                             fts |-> fts_ids, vec |-> vec_ids,
                             fused |-> IF with_vector
                                       THEN [i \in 1..Len(hydrate(ranked, fts_ids)) |->
                                               hydrate(ranked, fts_ids)[i].id]
                                       ELSE fts_ids,
                             response |-> hybrid_search(f, with_vector, vec_ids, ranked)]
    /\ dbPc' = "hybrid"
    /\ UNCHANGED <<dbVars, searchVars, portalVars, startVars, privVars, delVars>>
    /\ searchUnchanged

\* requests of the hybrid client: with and without a start time, one page
\* that covers every row and one of a single result
HybridFilters ==
    {[NoFilters EXCEPT !.start_time = t, !.limit = l] :
        t \in {{}, {200}}, l \in {1, MaxHybridRows}}

NextHybrid ==
    \/ SearchInsertScreenshot({HashA}, {100}, {NoWindow}, MaxHybridRows)
    \/ SearchInsertScreenshot({HashFar}, {300}, {NoWindow}, MaxHybridRows)
    \/ SearchInsertOcrText({<<TokC>>})
    \/ HybridInsertEmbedding
    \/ HybridCall(HybridFilters)
    \/ SearchReturn

SpecHybrid == InitSearch /\ [][NextHybrid]_vars

\* 1 / (60 + rank + 1) summed over the lists that hold the id, as a fraction
claimed_score(fts_ids, vec_ids, id) ==
    LET F == {i \in 1..Len(fts_ids) : fts_ids[i] = id}
        V == {i \in 1..Len(vec_ids) : vec_ids[i] = id}
        den(S) == 60 + ((CHOOSE i \in S : TRUE) - 1) + 1
    IN  IF F # {} /\ V # {} THEN <<den(F) + den(V), den(F) * den(V)>>
        ELSE IF F # {} THEN <<1, den(F)>>
        ELSE <<1, den(V)>>

\* C32: with a query vector, the list hybrid_search hands to dedup holds
\* every id of the FTS list and of the k-NN list once, no id's score
\* (the sum of 1/(60 + rank + 1) over the lists that hold it) is below the
\* score of an id after it, the response is the page of the dedup of that
\* list and its search_mode is "hybrid"; without a query vector the response
\* is the page of the dedup of the keyword results, with search_mode
\* "keyword".
C32_RrfOrder ==
    (dbPc = "hybrid" /\ dbArg.response.ok) =>
        LET f == dbArg.filters
            fused == dbArg.fused
            keyword == search_deduped([f EXCEPT !.limit = 300, !.offset = 0], 0).results
            results(ids) == [i \in 1..Len(ids) |-> SearchResult(ids[i])]
        IN  /\ dbArg.response.results =
                  page(deduplicate_results(results(fused), DEDUP_THRESHOLD),
                       f.limit, f.offset)
            /\ IF dbArg.with_vector
               THEN /\ dbArg.response.search_mode = {"hybrid"}
                    /\ {fused[i] : i \in 1..Len(fused)} =
                          {dbArg.fts[i] : i \in 1..Len(dbArg.fts)}
                          \cup {dbArg.vec[i] : i \in 1..Len(dbArg.vec)}
                    /\ \A i, j \in 1..Len(fused) :
                          i < j =>
                            LET x == claimed_score(dbArg.fts, dbArg.vec, fused[i])
                                y == claimed_score(dbArg.fts, dbArg.vec, fused[j])
                            IN  /\ fused[i] # fused[j]
                                /\ x[1] * y[2] >= y[1] * x[2]
               ELSE /\ dbArg.response.search_mode = {"keyword"}
                    /\ fused = [i \in 1..Len(keyword) |-> keyword[i].id]

\* an id that is second in both lists comes before the id that is first in
\* the FTS list only and the id that is first in the k-NN list only
C32_Witness ==
    /\ dbPc = "hybrid"
    /\ dbArg.with_vector
    /\ Len(dbArg.fts) = 2
    /\ Len(dbArg.vec) = 2
    /\ Len(dbArg.fused) = 3
    /\ dbArg.fused[1] = dbArg.fts[2]
    /\ dbArg.fused[1] = dbArg.vec[2]

\* C39: every result of a hybrid search with a query vector satisfies the
\* start_time, end_time and app_name filters of the request.
C39_HybridResultsFiltered ==
    (dbPc = "hybrid" /\ dbArg.with_vector /\ dbArg.response.ok) =>
        \A i \in 1..Len(dbArg.response.results) :
            LET id == dbArg.response.results[i].id
                f == dbArg.filters
            IN  /\ \A t \in f.start_time : screenshots[id].timestamp >= t
                /\ \A t \in f.end_time : screenshots[id].timestamp <= t
                /\ \A a \in f.app_name : screenshots[id].window.app_name = {a}


(***************************************************************************)
(* Portal backend: the PipeWire pump thread and the shared frame slot.      *)
(***************************************************************************)
MaxPumpFrames == 5

portalUnchanged ==
    UNCHANGED <<is_capturing, window, screen, capVars, chanVars, hashVars,
                ocrVars, tailVars, frames_ocr_pending, dbVars, shutPc, ipcVars,
                crashVars, searchVars, startVars, privVars, delVars>>

\* the param_changed callback: *format_info.lock() = Some(fmt)
PortalParamChanged ==
    /\ ~format_info
    /\ format_info' = TRUE
    /\ UNCHANGED <<shared_frame, pumped, since_read, portal_result>>
    /\ portalUnchanged

\* the process callback for the frame numbered pumped + 1: the slot is written
\* only if the consumer has taken the previous frame, the format is
\* negotiated and dequeue_buffer returns a buffer with data
PortalProcess(has_buffer) ==
    /\ pumped < MaxPumpFrames
    /\ pumped' = pumped + 1
    /\ since_read' = IF has_buffer /\ format_info
                     THEN Append(since_read, pumped + 1)
                     ELSE since_read
    /\ shared_frame' = IF shared_frame = {} /\ format_info /\ has_buffer
                       THEN {pumped + 1}
                       ELSE shared_frame
    /\ UNCHANGED <<format_info, portal_result>>
    /\ portalUnchanged

\* PortalCaptureBackend::capture_frame: self.shared.frame.lock().take()
PortalCaptureFrame ==
    /\ shared_frame' = {}
    /\ since_read' = <<>>
    /\ portal_result' =
          IF shared_frame = {}
          THEN [ok |-> FALSE, frame |-> 0, produced |-> since_read]
          ELSE [ok |-> TRUE, frame |-> CHOOSE f \in shared_frame : TRUE,
                produced |-> since_read]
    /\ UNCHANGED <<format_info, pumped>>
    /\ portalUnchanged

NextPortal ==
    \/ PortalParamChanged
    \/ \E has_buffer \in BOOLEAN : PortalProcess(has_buffer)
    \/ PortalCaptureFrame

SpecPortal == Init /\ [][NextPortal]_vars

\* C33: when the pump thread has produced frames f1 .. fn since the consumer
\* last read, the next capture_frame returns the latest of them, fn
C33_NewestWins ==
    portal_result.produced # <<>>
        => /\ portal_result.ok
           /\ portal_result.frame = portal_result.produced[Len(portal_result.produced)]

\* capture_frame returned the first of two frames produced since the last read
C33_ReturnsFirst ==
    /\ portal_result.ok
    /\ Len(portal_result.produced) >= 2
    /\ portal_result.frame = portal_result.produced[1]


(***************************************************************************)
(* run_daemon after start_pipeline: D-Bus registration, then the window     *)
(* info provider, while the capture task already runs.                      *)
(***************************************************************************)
MaxStartTicks == 2
MaxCallbacks == 1

\* the windows of the start-up model: an editor and an excluded application
StartWindows ==
    {w \in Windows : w.window_title \subseteq {<<Lc("a")>>} /\ w.app_name # {}}

startUnchanged ==
    UNCHANGED <<is_capturing, screen, capVars, chanVars, hashVars, ocrVars,
                tailVars, frames_ocr_pending, dbVars, shutPc, ipcVars,
                crashVars, searchVars, portalVars, privVars, delVars>>

\* window_info.start() called before the service is registered
MainStartProviderEarly ==
    /\ mainPc = "pipeline_started"
    /\ ~script_loaded
    /\ kwin_window_info # {}
    /\ script_loaded' = TRUE
    /\ callbacks' = Append(callbacks, active_window)
    /\ UNCHANGED <<mainPc, window, kwin_window_info, active_window>>
    /\ startUnchanged

\* dbus_conn.object_server().at("/com/rewindos/Daemon", dbus_service).await?
MainRegisterObject ==
    /\ mainPc = "pipeline_started"
    /\ mainPc' \in {"object_registered", "exited"}
    /\ UNCHANGED <<window, kwin_window_info, active_window, script_loaded,
                   callbacks>>
    /\ startUnchanged

\* dbus_conn.request_name("com.rewindos.Daemon").await?
MainRequestName ==
    /\ mainPc = "object_registered"
    /\ mainPc' \in {"name_acquired", "exited"}
    /\ UNCHANGED <<window, kwin_window_info, active_window, script_loaded,
                   callbacks>>
    /\ startUnchanged

\* window_info.start().await: KwinWindowInfo::start loads the tracking script,
\* which reports the active window at once, or fails with a warning; the
\* other providers make no callbacks
MainStartProvider ==
    /\ mainPc = "name_acquired"
    /\ mainPc' = "provider_started"
    /\ \/ /\ kwin_window_info # {}
          /\ script_loaded' = TRUE
          /\ callbacks' = Append(callbacks, active_window)
       \/ UNCHANGED <<script_loaded, callbacks>>
    /\ UNCHANGED <<window, kwin_window_info, active_window>>
    /\ startUnchanged

\* the desktop activates another window; the loaded script calls
\* ReportActiveWindow through workspace.windowActivated
WindowActivated ==
    /\ \E w \in StartWindows : w # active_window /\ active_window' = w
    /\ IF script_loaded
       THEN /\ Len(callbacks) < MaxCallbacks
            /\ callbacks' = Append(callbacks, active_window')
       ELSE UNCHANGED callbacks
    /\ UNCHANGED <<mainPc, window, kwin_window_info, script_loaded>>
    /\ startUnchanged

\* a call of the script reaches the bus: the owner of com.rewindos.Daemon
\* runs report_active_window; without an owner the call fails
CallbackDelivered ==
    /\ callbacks # <<>>
    /\ callbacks' = Tail(callbacks)
    /\ IF mainPc \in {"name_acquired", "provider_started"}
       THEN report_active_window(Head(callbacks))
       ELSE UNCHANGED window
    /\ UNCHANGED <<mainPc, kwin_window_info, active_window, script_loaded>>
    /\ startUnchanged

InitStartup ==
    /\ InitPipelineStarted
    /\ InitIdleClient
    /\ config = DefaultConfig
    /\ mainPc = "pipeline_started"
    /\ kwin_window_info \in {{}, {"KWin"}}
    /\ script_loaded = FALSE
    /\ active_window \in StartWindows

NextStartup ==
    \/ MainRegisterObject
    \/ MainRequestName
    \/ MainStartProvider
    \/ WindowActivated
    \/ CallbackDelivered
    \/ mainPc \in {"name_acquired", "provider_started"} /\ ReportActiveWindow
    \/ mainPc # "exited" /\ CaptureRun({29001}, MaxStartTicks)

SpecStartup == InitStartup /\ [][NextStartup]_vars

\* C34: the tracking script is loaded only after the service object is
\* registered and the bus name acquired, so every ReportActiveWindow call of
\* the script is received and stored as the cached window info; and while no
\* callback-based provider is active the cached window info never changes
C34_ServiceBeforeProvider ==
    [][/\ (script_loaded' /\ ~script_loaded) => mainPc = "name_acquired"
       /\ (callbacks # <<>> /\ callbacks' = Tail(callbacks))
             => (kwin_window_info # {} /\ window' = Head(callbacks))
       /\ (kwin_window_info = {}) => (window' = window /\ callbacks' = <<>>)]_vars

\* C34 witness: the provider is started, a call of the script was delivered
\* and the cached window info is the active window, an application
C34_Witness ==
    /\ mainPc = "provider_started"
    /\ script_loaded
    /\ callbacks = <<>>
    /\ window = active_window
    /\ window.app_name # {}

\* C35: no frame whose pixels were captured while the active window matched
\* the exclusion lists is returned by next_frame
C35_NoExcludedPixels ==
    \A w \in emitted_under : ~is_excluded(w, excluded_apps, excluded_title_patterns)


(***************************************************************************)
(* DeleteRange of a past range while the hash stage still holds frames.     *)
(***************************************************************************)
MaxDeleteRaceTicks == 2

NextDeleteRace ==
    \/ CaptureRun({29001}, MaxDeleteRaceTicks)
    \/ HashTask
    \/ DeleteRange

SpecDeleteRace == Init /\ [][NextDeleteRace]_vars

\* C36: after DeleteRange(start, end) returned for a range that ends no later
\* than the time of the call, no screenshot row has its timestamp in
\* [start, end)
C36_DeletedRangeStaysEmpty ==
    \A r \in deleted_ranges : MatchRange(r[1], r[2]) = {}


\* C37: every OcrText, FTS, BoundingBox and Embedding row refers to an
\* existing screenshot row
C37_NoOrphanRows ==
    /\ ocr_text_content \subseteq DOMAIN screenshots
    /\ ocr_fts \subseteq DOMAIN screenshots
    /\ ocr_bounding_boxes \subseteq DOMAIN screenshots
    /\ ocr_embeddings \subseteq DOMAIN screenshots


(***************************************************************************)
(* The stages under fair scheduling: every spawned task that can take a     *)
(* step eventually takes one.                                               *)
(***************************************************************************)
SpecStagesFair ==
    /\ InitPipeline
    /\ [][NextBackpressure]_vars
    /\ WF_vars(CaptureRun({29001}, MaxBackpressureTicks))
    /\ WF_vars(HashTask)
    /\ WF_vars(OcrStage)
    /\ WF_vars(OcrTask)
    /\ WF_vars(IndexTask)
    /\ WF_vars(EmbedTask)

\* the row with the given id is still held by a stage, a task or a channel
\* between the hash stage and the index stage
in_flight(id) ==
    \/ hashPc = "send" /\ hashFrame.screenshot_id = id
    \/ \E i \in 1..Len(processed) : processed[i].screenshot_id = id
    \/ ocrPc = "acquire" /\ ocrFrame.screenshot_id = id
    \/ \E t \in ocrTasks : t.screenshot_id = id
    \/ \E i \in 1..Len(ocrq) : ocrq[i] = id
    \/ indexPc = "write" /\ indexResult = id

\* a row that no stage holds any more keeps its ocr_status in every later
\* step and is never taken up again, however long the capture task runs
LeftRowKeepsStatus ==
    [][\A id \in DOMAIN screenshots :
          ~in_flight(id) => /\ id \in DOMAIN screenshots'
                            /\ screenshots'[id].ocr_status = screenshots[id].ocr_status
                            /\ ~in_flight(id)']_vars

\* a row that no stage holds any more and that is pending or processing
LeftRowUnsettled ==
    /\ config.ocr_enabled
    /\ \E id \in DOMAIN screenshots :
          /\ ~in_flight(id)
          /\ screenshots[id].ocr_status \in {"pending", "processing"}

\* C38: with OCR enabled, every screenshot row the hash stage inserted
\* eventually has ocr_status done or failed
C38_EveryRowSettles ==
    \A id \in 1..MaxBackpressureTicks :
        (config.ocr_enabled /\ id \in DOMAIN screenshots)
            ~> (/\ id \in DOMAIN screenshots
                /\ screenshots[id].ocr_status \in {"done", "failed"})


(***************************************************************************)
(* The backfill task and the stages under fair scheduling.                  *)
(***************************************************************************)
SpecBackfillFair ==
    /\ InitBackfill
    /\ [][NextBackfill]_vars
    /\ WF_vars(CaptureRun({29001}, MaxBackfillTicks))
    /\ WF_vars(HashTask)
    /\ WF_vars(OcrRecv \/ OcrSpawn)
    /\ WF_vars(OcrTask)
    /\ WF_vars(IndexTask)
    /\ WF_vars(EmbedTask)
    /\ WF_vars(Backfill)

\* C40: the backfill loop terminates, whatever the embedding service answers
C40_BackfillTerminates == <>(dbPc = "bf_done")

====
